---- MODULE Spec2Model ----
(***************************************************************************)
(* A model of the retrieval-reasoning coordinator (agent_coordinator.py),  *)
(* the thinking engine it drives (thinking.py) and the answer caching of   *)
(* the fusion agent (fusion_agent.py).                                     *)
(*                                                                         *)
(* Strings of the program are modelled by what the code reads of them: a   *)
(* retriever result by its type and the task that produced it, an answer   *)
(* by its sequence of tokens (think markers, citation header, text).       *)
(***************************************************************************)
EXTENDS Integers, Sequences, FiniteSets, TLC

\* ------------------------------------------------------------------ bounds
MaxTasks == 2
NumRequests == 2
\* the operations called on one thinking engine
MaxEngineOps == 4
\* the steps of the engines whose reasoning is truncated
MaxSteps == 8
\* the steps one iterative search adds to its engine
MaxSearchSteps == 7
\* the ticks of the clock
MaxClock == 2
\* the pieces a cached answer is made of
MaxPieces == 3
\* the sessions the driver creates
MaxSessions == 12
\* the tokens of a short segment, and the largest chunk_size
MaxTokens == 5
MaxChunk == 3

\* ------------------------------------------------------- program constants
\* x.get("priority", 3)
DefaultPriority == 3
\* complexity > 0.7, in tenths
ComplexityThreshold == 7

Requests == 1..NumRequests

NoPriority == 0
\* the priorities a plan's task may carry (NoPriority: the key is absent)
Priorities == {NoPriority, DefaultPriority, DefaultPriority + 1}

TaskTypes == {"local_search", "global_search", "exploration", "chain_exploration"}

\* a task of the plan: its type, its priority, and whether it supplies entities
Tasks == [type : TaskTypes \ {"chain_exploration"}, priority : Priorities, entities : {FALSE}]
           \cup [type : {"chain_exploration"}, priority : Priorities, entities : BOOLEAN]

RECURSIVE SeqsUpTo(_, _)
SeqsUpTo(S, n) ==
    IF n = 0 THEN {<<>>}
    ELSE LET shorter == SeqsUpTo(S, n - 1)
         IN  shorter \cup {Append(s, x) : s \in {t \in shorter : Len(t) = n - 1}, x \in S}

\* complexity_assessment in tenths: at the threshold and above it
Complexities == {ComplexityThreshold, ComplexityThreshold + 1}

\* the plans the planner may return
Plans == [complexity : Complexities, tasks : SeqsUpTo(Tasks, MaxTasks)]

\* the plans of the concurrent streams: one local_search task
StreamPlans == [complexity : Complexities,
                tasks : {<<[type |-> "local_search", priority |-> NoPriority, entities |-> FALSE]>>}]

NoPlan == [complexity |-> 0, tasks |-> <<>>]

\* ----------------------------------------------------------------- answers
\* An answer is a sequence of tokens. "t" is text.
ThinkOpen == "<think>"
ThinkClose == "</think>"
\* the header of the citations section of an answer
Citations == "#### citations"
\* the text synthesize returns when its LLM call raises
SynthError == "synthesis error"

\* what the LLM may answer at the synthesis of a run the fusion agent starts
LLMAnswers == { <<"t">>,
                <<ThinkOpen, "t", ThinkClose, "t">>,
                <<"t", Citations, "t">> }

\* what the deep research tool may answer
DeepAnswers == { <<"t">>,
                 <<ThinkOpen, "t", ThinkClose, "t">>,
                 <<ThinkOpen, "t">>,
                 <<"t", Citations, "t">> }

\* the note _generate_node appends when contradictions were found
ContradictionNote == "note"
\* the apology _generate_node returns when the run raised
Apology == <<"apology">>
\* the error chunk _stream_process yields when the run raised
StreamError == <<"error">>

\* the questions asked and the threads asking them
Questions == {"q"}
Threads == {"t1", "t2"}

\* the answers the coordinator's own runs are explored with
CoordAnswers == { <<"t">>, <<"t", Citations, "t">>, <<Citations, "t">> }

NoAnswer == <<"None">>

\* ------------------------------------------------------------------- state
VARIABLES
    pc,               \* per request: where the request stands
    mode,             \* per request: "sync" (process_query) or "stream"
    retrieval_plan,   \* per request: the planner's plan
    tasks,            \* per request: the sorted tasks, as indices into the plan
    idx,              \* per request: the number of tasks the loop has taken
    all_results,      \* per request: the four result buckets
    thinking_process, \* per request: what get_full_thinking returned, or None
    final_answer,     \* per request: the synthesizer's answer
    chunks,           \* per request: the chunks a stream has yielded
    dispatched,       \* per request: the tasks taken by the loop, in order
    retriever_calls,  \* per request: the tasks whose retriever was invoked
    outcomes,         \* per request: how each task taken by the loop ended
    own_steps,        \* per request: the steps the request appended since it initialized the engine
    synth_calls,      \* per request: the arguments of each synthesize call
    execution_trace,  \* the coordinator's execution_trace
    thinking_engine   \* the coordinator's ThinkingEngine

VARIABLES
    a_pc,             \* per request: where the request stands in the fusion agent
    a_handler,        \* per request: "generate" (_generate_node) or "stream" (_stream_process)
    a_question,       \* per request: the question
    a_thread,         \* per request: the thread_id
    a_answer,         \* per request: clean_answer / cached_result
    a_returned,       \* per request: what the caller received
    a_hit,            \* per request: the cache that answered it, or "none"
    a_computes,       \* per request: the retrieval+synthesis computations it ran
    a_log,            \* per request: its cache operations, in order
    a_inflight,       \* per request: the requests in flight when it arrived
    a_held,           \* per request: what the global cache held for its question when it arrived
    session_cache,    \* cache_manager: (thread_id, question) -> answer
    global_cache,     \* global_cache_manager: question -> answer
    use_deeper_tool,  \* FusionGraphRAGAgent.use_deeper_tool
    complexity_of     \* complexity_estimate of each question, in tenths

VARIABLES
    e_last,           \* the last operation called on the thinking engine from outside a run
    e_before,         \* the thinking engine as that operation found it
    e_ops             \* the number of such operations so far

VARIABLES
    tool_cache,       \* GlobalSearchTool.cache_manager: key -> value
    tool_env,         \* what the graph store and the LLM give the global search tool
    s_last,           \* the last search call on the tool: its input and its result
    s_prev,           \* the search call before it
    p_last,           \* the last plan call on the planner: the LLM's answer and the plan
    clock             \* time.time(), in ticks

engineVars == <<e_last, e_before, e_ops>>

agentVars == <<a_pc, a_handler, a_question, a_thread, a_answer, a_returned, a_hit,
               a_computes, a_log, a_inflight, a_held, session_cache, global_cache,
               use_deeper_tool, complexity_of>>

coordVars == <<pc, mode, retrieval_plan, tasks, idx, all_results, thinking_process,
               final_answer, chunks, dispatched, retriever_calls, outcomes, own_steps,
               synth_calls, execution_trace, thinking_engine>>

\* the coordinator's variables other than its thinking engine
coordRest == <<pc, mode, retrieval_plan, tasks, idx, all_results, thinking_process,
               final_answer, chunks, dispatched, retriever_calls, outcomes, own_steps,
               synth_calls, execution_trace>>

VARIABLES
    a_chunks          \* per request: the chunks _stream_process yielded on a cache hit

VARIABLES
    session_pool,     \* DBConnectionManager.session_pool
    db_pc,            \* per caller: where it stands in get_session / release_session
    db_held,          \* per caller: the number of sessions it holds
    db_closed,        \* the number of sessions closed so far
    db_created        \* the number of sessions created so far

VARIABLES
    all_tokens,       \* _chunk_single_segment: the tokens of the text
    chunk_size,       \* ChineseTextChunker.chunk_size
    overlap,          \* ChineseTextChunker.overlap
    start_pos,        \* _chunk_single_segment: start_pos
    text_chunks,      \* _chunk_single_segment: chunks, each by its start and its end
    prev_start,       \* start_pos at the beginning of the last iteration, -1 before the first
    k_pc              \* _chunk_single_segment: "idle", "loop" or "returned"

toolVars == <<tool_cache, tool_env, s_last, s_prev>>

poolVars == <<session_pool, db_pc, db_held, db_closed, db_created>>

chunkerVars == <<all_tokens, chunk_size, overlap, start_pos, text_chunks, prev_start, k_pc>>

\* the variables of the session pool and of the text chunker
laterVars == <<poolVars, chunkerVars>>

otherVars == <<toolVars, p_last, clock, a_chunks, laterVars>>

vars == <<coordVars, agentVars, engineVars, otherVars>>

\* ------------------------------------------------------------------ caches
\* get returns None
Miss == <<"None">>

\* CacheManager.get: the value stored under the key, None when there is none
CacheGet(cache, key) == cache[key]

\* CacheManager.set: the value is stored under the key
CacheSet(cache, key, value) == [cache EXCEPT ![key] = value]

\* a cache operation of a request
CacheOp(op, cache, value) == [op |-> op, cache |-> cache, value |-> value]

\* ------------------------------------------------------------------ planner
\* the complexities the LLM may write in its plan, in tenths
LLMComplexities == {0 - 2, 0, 5, ComplexityThreshold, ComplexityThreshold + 1, 10, 15}

\* what the LLM answers to the planner: it raises, a text without a JSON
\* object, a text whose braces hold no JSON, a text whose braces hold a plan
PlannerResponses ==
    [kind : {"raise", "no_json", "bad_json"}, plan : {NoPlan}]
      \cup [kind : {"json"},
            plan : [complexity : LLMComplexities, tasks : SeqsUpTo(Tasks, 1)]]

\* the plan returned when the LLM's answer gives none
DefaultPlan ==
    [complexity |-> 5,
     tasks |-> <<[type |-> "local_search", priority |-> DefaultPriority, entities |-> FALSE]>>]

\* plan without its except clause
PlanNoExcept(resp) ==
    CASE resp.kind = "json" -> [plan |-> resp.plan, raised |-> FALSE]
      [] resp.kind = "no_json" -> [plan |-> DefaultPlan, raised |-> FALSE]
      [] OTHER -> [plan |-> NoPlan, raised |-> TRUE]

\* RetrievalPlannerAgent.plan: the plan it returns, whether it raises
Plan(resp) ==
    [plan |-> IF resp.kind = "json" THEN resp.plan ELSE DefaultPlan, raised |-> FALSE]

\* the plans the planner can hand to the coordinator
PlannerPlans == {Plan(resp).plan : resp \in PlannerResponses}

\* no plan call yet
NoPlanCall == [resp |-> [kind |-> "none", plan |-> NoPlan], plan |-> NoPlan, raised |-> FALSE]

\* -------------------------------------------------------- global search tool
\* the values the tool handles: a list of partial summaries, the keyword
\* dictionary, str(value), None
List(items) == [shape |-> "list", items |-> items]
Dict(keywords) == [shape |-> "dict", keywords |-> keywords]
Str(v) == [shape |-> "str", of |-> v]
ToolMiss == [shape |-> "None"]

\* the call raised
Raised == [shape |-> "raised"]

\* the cache keys of the question "q": f"keywords:{query}", query,
\* f"{query}||{','.join(sorted(keywords))}"
ToolKeys == {"keywords:q", "q", "q||k"}

\* query_input: the string "q", or a dictionary with the query "q" and keywords
ToolInputs == [dict : {TRUE}, keywords : {<<>>, <<"k">>}] \cup [dict : {FALSE}, keywords : {<<>>}]

\* what the tool is given, the same at every call: whether the graph query
\* finds communities or raises, what the keyword chain answers (a JSON list,
\* an empty JSON list, another JSON value, no JSON), what the map chain
\* answers (a summary, a blank text, an exception)
ToolEnvs == [graph : {"none", "some", "raise"},
             keywords : {"list", "empty", "object", "unparsable"},
             map : {"text", "blank", "raise"}]

\* if cached_keywords: / if cached_result:
ToolTruthy(v) == v.shape # "None" /\ (v.shape = "list" => v.items # <<>>)

\* GlobalSearchTool.extract_keywords: what it returns and the cache it leaves
ExtractKeywords(cache, env) ==
    LET cached == CacheGet(cache, "keywords:q")
        found == Dict(IF env.keywords = "list" THEN <<"k">> ELSE <<>>)
    IN  CASE ToolTruthy(cached) -> [cache |-> cache, value |-> cached]
          [] env.keywords = "unparsable" -> [cache |-> cache, value |-> Dict(<<>>)]
          [] OTHER -> [cache |-> CacheSet(cache, "keywords:q", Str(found)), value |-> found]

\* GlobalSearchTool.search: what it returns and the cache it leaves
Search(input, cache, env) ==
    LET ek == ExtractKeywords(cache, env)
        c1 == IF input.dict THEN cache ELSE ek.cache
    IN  IF ~input.dict /\ ek.value.shape # "dict"
        THEN [cache |-> c1, result |-> Raised]
        ELSE LET keywords == IF input.dict THEN input.keywords ELSE ek.value.keywords
                 cache_key == IF keywords # <<>> THEN "q||k" ELSE "q"
                 cached_result == CacheGet(c1, cache_key)
                 intermediate_results ==
                     List(IF env.map = "text" THEN <<"summary">> ELSE <<>>)
             IN  CASE ToolTruthy(cached_result) -> [cache |-> c1, result |-> cached_result]
                   [] env.graph = "raise" -> [cache |-> c1, result |-> List(<<"error">>)]
                   [] env.graph = "none" -> [cache |-> c1, result |-> List(<<>>)]
                   [] OTHER -> [cache |-> CacheSet(c1, cache_key, Str(intermediate_results)),
                                result |-> intermediate_results]

\* no call yet
NoCall == [input |-> [dict |-> FALSE, keywords |-> <<"none">>], result |-> ToolMiss]

\* --------------------------------------------------------- thinking engine
\* ThinkingEngine.__init__
NewEngine ==
    [all_reasoning_steps |-> <<>>,
     msg_history |-> <<>>,
     executed_search_queries |-> <<>>,
     hypotheses |-> <<>>,
     verification_chain |-> <<>>,
     reasoning_tree |-> [b \in {} |-> <<>>],
     current_branch |-> "main"]

\* initialize_with_query that keeps the executed queries of the earlier
\* query
InitializeKeepExecuted(e, r) ==
    [all_reasoning_steps |-> <<>>,
     msg_history |-> <<[role |-> "user", query |-> r]>>,
     executed_search_queries |-> e.executed_search_queries,
     hypotheses |-> <<>>,
     verification_chain |-> <<>>,
     reasoning_tree |-> [b \in {"main"} |-> <<>>],
     current_branch |-> "main"]

\* ThinkingEngine.initialize_with_query
InitializeWithQuery(e, r) ==
    [all_reasoning_steps |-> <<>>,
     msg_history |-> <<[role |-> "user", query |-> r]>>,
     executed_search_queries |-> <<>>,
     hypotheses |-> <<>>,
     verification_chain |-> <<>>,
     reasoning_tree |-> [b \in {"main"} |-> <<>>],
     current_branch |-> "main"]

\* add_reasoning_step that appends nothing
AddReasoningStepNone(e, content) == e

\* ThinkingEngine.add_reasoning_step
AddReasoningStep(e, content) ==
    LET tree == e.reasoning_tree
        cur == e.current_branch
        old == IF cur \in DOMAIN tree THEN tree[cur] ELSE <<>>
    IN  [e EXCEPT !.all_reasoning_steps = Append(@, content),
                  !.reasoning_tree = [b \in DOMAIN tree \cup {cur} |->
                                        IF b = cur THEN Append(old, content) ELSE tree[b]]]

\* the branch names the callers use; "b" is never created by
\* initialize_with_query
BranchNames == {"main", "a", "b"}

\* f"counter_factual_{int(time.time())}" at each value of the clock
CounterFactualNames ==
    <<"counter_factual_0", "counter_factual_1", "counter_factual_2", "counter_factual_3">>

\* the branch counter_factual_analysis creates
CounterFactualBranch == CounterFactualNames[clock + 1]

\* the contents of the steps the callers add: two plain texts, and a text
\* that holds a search query between its markers
StepContents == {[by |-> 0, kind |-> "s", task |-> 1], [by |-> 0, kind |-> "s", task |-> 2],
                 [by |-> 0, kind |-> "query", task |-> 1]}

\* the record of a branch creation: f"... {branch_name} ... {base_branch}"
BranchRecord(name, base) ==
    [by |-> 0, kind |-> "branch", task |-> 0, name |-> name, base |-> base]

\* the record of a merge: f"... {source_branch} -> {target_branch}"
MergeRecord(src, dst) ==
    [by |-> 0, kind |-> "merged", task |-> 0, name |-> src, base |-> dst]

\* branch_reasoning: the base branch, "main" when the one asked for is missing
BaseOf(e, base) == IF base \in DOMAIN e.reasoning_tree THEN base ELSE "main"

\* branch_reasoning: self.reasoning_tree[branch_name] = []
WithEmptyBranch(e, name) ==
    [b \in DOMAIN e.reasoning_tree \cup {name} |->
       IF b = name THEN <<>> ELSE e.reasoning_tree[b]]

\* branch_reasoning raises KeyError when it reads the base branch
BranchRaises(e, name, base) == BaseOf(e, base) \notin DOMAIN WithEmptyBranch(e, name)

\* ThinkingEngine.branch_reasoning
BranchReasoning(e, name, base) ==
    LET b0 == BaseOf(e, base)
        tree1 == WithEmptyBranch(e, name)
    IN  IF BranchRaises(e, name, base)
        THEN [e EXCEPT !.reasoning_tree = tree1]
        ELSE AddReasoningStep(
               [e EXCEPT !.reasoning_tree = [tree1 EXCEPT ![name] = tree1[b0]],
                         !.current_branch = name],
               BranchRecord(name, b0))

\* switch_branch that does not test the name
SwitchBranchAnyway(e, name) == [e EXCEPT !.current_branch = name]

\* ThinkingEngine.switch_branch
SwitchBranch(e, name) ==
    IF name \in DOMAIN e.reasoning_tree THEN [e EXCEPT !.current_branch = name] ELSE e

\* whether position k of seq holds a content that target lacks
Unique(seq, target, k) == \A j \in 1..Len(target) : target[j] # seq[k]

\* the steps among the first n of seq whose content target lacks, in order
RECURSIVE Pick(_, _, _)
Pick(seq, target, n) ==
    IF n = 0 THEN <<>>
    ELSE IF Unique(seq, target, n)
         THEN Append(Pick(seq, target, n - 1), seq[n])
         ELSE Pick(seq, target, n - 1)

\* merge_branches that copies every step of the source branch
MergeBranchesNoDedup(e, src, dst) ==
    IF src \notin DOMAIN e.reasoning_tree \/ dst \notin DOMAIN e.reasoning_tree
    THEN e
    ELSE [e EXCEPT !.reasoning_tree[dst] =
                     Append(@ \o e.reasoning_tree[src], MergeRecord(src, dst)),
                   !.current_branch = dst]

\* ThinkingEngine.merge_branches
MergeBranches(e, src, dst) ==
    IF src \notin DOMAIN e.reasoning_tree \/ dst \notin DOMAIN e.reasoning_tree
    THEN e
    ELSE LET source_steps == e.reasoning_tree[src]
             target_steps == e.reasoning_tree[dst]
             source_unique_steps == Pick(source_steps, target_steps, Len(source_steps))
         IN  [e EXCEPT !.reasoning_tree[dst] =
                         Append(target_steps \o source_unique_steps, MergeRecord(src, dst)),
                       !.current_branch = dst]

\* how the two LLM calls of counter_factual_analysis may end
CounterFactualOutcomes == {"ok", "raise1", "raise2"}

\* ThinkingEngine.counter_factual_analysis
CounterFactualAnalysis(e, llm) ==
    LET cf == CounterFactualBranch
        e1 == BranchReasoning(e, cf, "main")
        e2 == AddReasoningStep(e1, [by |-> 0, kind |-> "cf_hypothesis", task |-> 0])
        e3 == AddReasoningStep(e2, [by |-> 0, kind |-> "cf_result", task |-> 0])
        e4 == AddReasoningStep(e3, [by |-> 0, kind |-> "cf_comparison", task |-> 0])
        e5 == SwitchBranch(e4, "main")
    IN  CASE BranchRaises(e, cf, "main") -> e1
          [] llm = "raise1" -> e2
          [] llm = "raise2" -> e3
          [] OTHER -> AddReasoningStep(e5, [by |-> 0, kind |-> "cf_summary", task |-> 0])

\* how the LLM call of verify_hypothesis may end
VerifyOutcomes == {"ok", "raise"}

\* ThinkingEngine.verify_hypothesis: the result joins the verification chain
\* and the verification becomes a reasoning step
VerifyHypothesis(e, h, llm) ==
    IF llm = "raise" THEN e
    ELSE AddReasoningStep(
           [e EXCEPT !.verification_chain = Append(@, [hypothesis |-> h, status |-> "verified"])],
           [by |-> 0, kind |-> "verification", task |-> 0, hypothesis |-> h])

\* an operation on the thinking engine: its name, its arguments, how it ended
EngineOp(op, a, b, result) == [op |-> op, a |-> a, b |-> b, result |-> result]
NoOp == EngineOp("none", "none", "none", "none")

\* remove_query_tags, remove_result_tags: the text without the markers and
\* what stands between them
RemoveTags(step) ==
    CASE step.kind = "query" -> [step EXCEPT !.kind = "query_removed"]
      [] step.kind = "result" -> [step EXCEPT !.kind = "result_removed"]
      [] OTHER -> step

\* ThinkingEngine.get_full_thinking: the steps between the think markers
GetFullThinking(e) ==
    [k \in 1..Len(e.all_reasoning_steps) |-> RemoveTags(e.all_reasoning_steps[k])]

\* the texts a caller can add as a step: plain text, text that holds a search
\* query between its markers, text that holds a search result between its
\* markers
MarkedKinds == {"query", "result"}
TruncSteps == {[by |-> 0, kind |-> k, task |-> 0] : k \in {"s"} \cup MarkedKinds}

\* BEGIN_SEARCH_QUERY in step or BEGIN_SEARCH_RESULT in step
HasMarker(step) == step.kind \in MarkedKinds

\* f"Step {idx + 1}: {step}\n\n", idx counted from 1 here
StepLine(i, step) == [idx |-> i, step |-> step]

\* "...\n\n"
Ellipsis == [idx |-> 0, step |-> [by |-> 0, kind |-> "...", task |-> 0]]

\* the last steps kept start one step too late
FirstOfLastNarrow(n) == IF n - 2 > 2 THEN n - 2 ELSE 2

\* max(1, len(all_reasoning_steps) - 4), counted from 1 here
FirstOfLast(n) == IF n - 3 > 2 THEN n - 3 ELSE 2

\* important_steps before the sort: the first step, the last four, the
\* middle steps with a marker
RECURSIVE Range(_, _)
Range(a, b) == IF a > b THEN <<>> ELSE <<a>> \o Range(a + 1, b)

ImportantSteps(steps) ==
    LET n == Len(steps)
    IN  <<1>> \o Range(FirstOfLast(n), n)
             \o SelectSeq(Range(2, n - 4), LAMBDA i : HasMarker(steps[i]))

\* important_steps.sort(key=lambda x: x[0])
RECURSIVE SortByIndex(_)
SortByIndex(seq) ==
    IF seq = <<>> THEN <<>>
    ELSE LET lo == CHOOSE k \in 1..Len(seq) :
                     /\ \A j \in 1..Len(seq) : seq[k] <= seq[j]
                     /\ \A j \in 1..(k - 1) : seq[j] # seq[k]
         IN  <<seq[lo]>> \o SortByIndex(SubSeq(seq, 1, lo - 1) \o SubSeq(seq, lo + 1, Len(seq)))

\* the formatting loop of prepare_truncated_reasoning from position k of the
\* kept indices on, prev the index before it
RECURSIVE FormatSteps(_, _, _, _)
FormatSteps(steps, kept, k, prev) ==
    IF k > Len(kept) THEN <<>>
    ELSE LET i == kept[k]
         IN  (IF i > prev + 1 THEN <<Ellipsis>> ELSE <<>>)
               \o <<StepLine(i, steps[i])>>
               \o FormatSteps(steps, kept, k + 1, i)

\* ThinkingEngine.prepare_truncated_reasoning: the lines of the text it returns
PrepareTruncatedReasoning(e) ==
    LET steps == e.all_reasoning_steps
        n == Len(steps)
    IN  IF n = 0 THEN <<>>
        ELSE IF n <= 5 THEN [i \in 1..n |-> StepLine(i, steps[i])]
        ELSE FormatSteps(steps, SortByIndex(ImportantSteps(steps)), 1, 0)

\* MAX_SEARCH_LIMIT of config/reasoning_prompts.py
MAX_SEARCH_LIMIT == 5

\* what the LLM answers to generate_next_query, once <think>...</think> is
\* removed: it raises, nothing, a text with a search query between the
\* markers (one not asked before, or the last one asked again), a text with
\* a final-answer marker, a text with both a new query and a final-answer
\* marker, any other text
SearchResponses == {"raise", "empty", "query", "repeat", "answer", "query_answer", "plain"}

\* "**answer**" in query_think or "enough information" in query_think
HasAnswerMarker(resp) == resp \in {"answer", "query_answer"}

\* extract_queries: the queries between the markers of the response; a
\* query not asked before is numbered after the executed ones
ExtractQueries(e, resp) ==
    LET done == Len(e.executed_search_queries)
    IN  CASE resp \in {"query", "query_answer"} -> <<done + 1>>
          [] resp = "repeat" -> <<IF done = 0 THEN 1 ELSE done>>
          [] OTHER -> <<>>

\* generate_next_query that looks for the final-answer marker before it
\* looks for queries
NextQueryStatusMarkerFirst(e, resp) ==
    CASE resp = "raise" -> "error"
      [] resp = "empty" -> "empty"
      [] HasAnswerMarker(resp) -> "answer_ready"
      [] ExtractQueries(e, resp) # <<>> -> "has_query"
      [] OTHER -> "no_query"

\* the status generate_next_query returns
NextQueryStatus(e, resp) ==
    CASE resp = "raise" -> "error"
      [] resp = "empty" -> "empty"
      [] ExtractQueries(e, resp) # <<>> -> "has_query"
      [] HasAnswerMarker(resp) -> "answer_ready"
      [] OTHER -> "no_query"

\* ThinkingEngine.generate_next_query: the engine it leaves
GenerateNextQuery(e, resp) ==
    IF resp \in {"raise", "empty"} THEN e
    ELSE AddReasoningStep(e, [by |-> 0,
                              kind |-> IF ExtractQueries(e, resp) # <<>> THEN "query" ELSE "s",
                              task |-> 0])

\* ThinkingEngine.has_executed_query
HasExecutedQuery(e, q) == \E k \in 1..Len(e.executed_search_queries) :
                              e.executed_search_queries[k] = q

\* ThinkingEngine.add_executed_query
AddExecutedQuery(e, q) == [e EXCEPT !.executed_search_queries = Append(@, q)]

\* what the LLM answers to generate_hypotheses: whether the text between its
\* first "[" and its last "]" is missing ("none"), is no JSON ("unparsable"),
\* is a JSON array of n objects with the keys hypothesis and reasoning
\* ("parsed") or of n elements without them ("malformed"), and the number
\* of "hypothesis N:" patterns in the text
HypothesisResponses ==
    [array : {"none", "unparsable"}, n : {0}, patterns : 0..2]
      \cup [array : {"parsed"}, n : 0..2, patterns : {0}]
      \cup [array : {"malformed"}, n : 1..2, patterns : 0..2]

\* a hypothesis: where it comes from and its position
Hypothesis(from, i) == [from |-> from, i |-> i]

\* ThinkingEngine._extract_hypotheses_fallback: the hypotheses it returns
ExtractHypothesesFallback(resp) ==
    IF resp.patterns = 0 THEN <<Hypothesis("default", 1)>>
    ELSE [i \in 1..resp.patterns |-> Hypothesis("pattern", i)]

\* ThinkingEngine.generate_hypotheses: the hypotheses it returns and stores
Hypotheses(resp) ==
    IF resp.array = "parsed"
    THEN [i \in 1..resp.n |-> Hypothesis("json", i)]
    ELSE ExtractHypothesesFallback(resp)

\* ThinkingEngine.generate_hypotheses: the engine it leaves
GenerateHypotheses(e, resp) ==
    AddReasoningStep([e EXCEPT !.hypotheses = Hypotheses(resp)],
                     [by |-> 0, kind |-> "hypotheses", task |-> 0, list |-> Hypotheses(resp)])

\* a reasoning step: who appended it, what it is, the task it belongs to
Step(r, kind, t) == [by |-> r, kind |-> kind, task |-> t]

\* ------------------------------------------------------------- coordinator
\* Key with a missing priority sorting last: x.get("priority", 0)
KeyNoDefault(t) == t.priority

\* key=lambda x: x.get("priority", 3)
Key(t) == IF t.priority = NoPriority THEN DefaultPriority ELSE t.priority

\* sorted(..., reverse=True) is stable: an element goes behind every element
\* whose key is at least its own
RECURSIVE InsertByKey(_, _, _)
InsertByKey(sorted, i, ts) ==
    IF sorted = <<>> THEN <<i>>
    ELSE IF Key(ts[Head(sorted)]) >= Key(ts[i])
         THEN <<Head(sorted)>> \o InsertByKey(Tail(sorted), i, ts)
         ELSE <<i>> \o sorted

RECURSIVE SortedPrefix(_, _)
SortedPrefix(ts, n) ==
    IF n = 0 THEN <<>> ELSE InsertByKey(SortedPrefix(ts, n - 1), n, ts)

\* tasks = sorted(retrieval_plan.get("tasks", []), key=..., reverse=True)
SortTasks(ts) == SortedPrefix(ts, Len(ts))

BucketOf == [local_search |-> "local", global_search |-> "global",
             exploration |-> "exploration", chain_exploration |-> "chain_exploration"]
StartEvent == [local_search |-> "local_search", global_search |-> "global_search",
               exploration |-> "exploration", chain_exploration |-> "chain_exploration"]
CompletedEvent == [local_search |-> "local_search_completed",
                   global_search |-> "global_search_completed",
                   exploration |-> "exploration_completed",
                   chain_exploration |-> "chain_exploration_completed"]
ErrorEvent == [local_search |-> "local_search_error", global_search |-> "global_search_error",
               exploration |-> "exploration_error",
               chain_exploration |-> "chain_exploration_error"]
\* the Python type of what each retriever returns
ResultKind == [local_search |-> "str", global_search |-> "list",
               exploration |-> "str", chain_exploration |-> "dict"]

EmptyResults == [local |-> <<>>, global |-> <<>>, exploration |-> <<>>, chain_exploration |-> <<>>]

\* _log_step putting the newest event first
LogStepFront(trace, type, t) == <<[type |-> type, task |-> t, timestamp |-> clock]>> \o trace

\* _log_step
LogStep(trace, type, t) == Append(trace, [type |-> type, task |-> t, timestamp |-> clock])

\* process_query that keeps the trace it finds
KeepTrace(trace) == trace

\* self.execution_trace = []
ResetTrace(trace) == <<>>

\* an event of the trace without its timestamp
Untimed(ev) == [type |-> ev.type, task |-> ev.task]

\* AddResult putting the newest result first: <bucket>_results.insert(0, result)
AddResultFront(res, ty, i) ==
    [res EXCEPT ![BucketOf[ty]] = <<[task |-> i, kind |-> ResultKind[ty]]>> \o @]

\* <bucket>_results.append(result)
AddResult(res, ty, i) ==
    [res EXCEPT ![BucketOf[ty]] = Append(@, [task |-> i, kind |-> ResultKind[ty]])]

\* TaskEvent with an except block that logs the completed event
TaskEventNoError(ty, out) ==
    CASE out = "skip" -> "chain_exploration_warning"
      [] OTHER -> CompletedEvent[ty]

\* TaskEvent that logs the completed event for a skipped chain_exploration
TaskEventSkipCompleted(ty, out) ==
    CASE out = "raise" -> ErrorEvent[ty]
      [] OTHER -> CompletedEvent[ty]

\* the event process_query logs when a task ends: the warning of a skipped
\* chain_exploration, the error event of the except block, the completed event
TaskEvent(ty, out) ==
    CASE out = "skip" -> "chain_exploration_warning"
      [] out = "raise" -> ErrorEvent[ty]
      [] OTHER -> CompletedEvent[ty]

\* what a retriever call may do: raise, return a falsy result, return a result
RetrieverOutcomes == {"raise", "empty", "ok"}

\* _extract_entities_from_results finds entities only in str items of the
\* local and global buckets and of the exploration bucket
HasText(res) ==
    \/ \E k \in 1..Len(res.local) : res.local[k].kind = "str"
    \/ \E k \in 1..Len(res.global) : res.global[k].kind = "str"
    \/ \E k \in 1..Len(res.exploration) : res.exploration[k].kind = "str"

\* whether the regex patterns may find an entity in the results gathered so far
ExtractOutcomes(res) == IF HasText(res) THEN BOOLEAN ELSE {FALSE}

\* the LLM call of a step raises
LLMRaise == <<"raise">>

\* SynthesizerAgent.synthesize: the LLM's content, or the error text when the
\* LLM call raises
Synthesize(llm) == IF llm = LLMRaise THEN <<SynthError>> ELSE llm

\* the first position of token tok in answer a, 0 when absent (str.find)
Find(a, tok) ==
    IF \E k \in 1..Len(a) : a[k] = tok
    THEN CHOOSE k \in 1..Len(a) : a[k] = tok /\ \A j \in 1..(k - 1) : a[j] # tok
    ELSE 0

\* process_query_stream: ref_index = final_answer.find(citations header);
\* if ref_index > 0: clean_answer = final_answer[:ref_index]
CleanCitations(a) ==
    IF Find(a, Citations) > 1 THEN SubSeq(a, 1, Find(a, Citations) - 1) ELSE a

\* ------------------------------------------------------- fusion agent steps
\* the handlers of the fusion agent a request arrives at
Handlers == {"generate", "stream"}

\* no cached value is ever taken for a hit
TruthyNever(v) == FALSE

\* `if global_result:` and `if cached_result:`: a value other than None and
\* other than the empty string
Truthy(v) == v # Miss /\ v # <<>>

\* query.strip()
Strip(q) == IF q \in {" q", "q ", " q "} THEN "q" ELSE q

\* [.!?] and their full-width forms, and the whitespace \s
SentenceMarks == {".", "!", "?"}
Whitespace == {" "}

\* len(buffer) >= 40
BufferLimit == 40

\* the first position from k on that holds no whitespace, Len(text) + 1 when
\* there is none
RECURSIVE EndOfSpaces(_, _)
EndOfSpaces(text, k) ==
    IF k <= Len(text) /\ text[k] \in Whitespace THEN EndOfSpaces(text, k + 1) ELSE k

\* the position of the first sentence mark from k on, 0 when there is none
NextMark(text, k) ==
    LET marks == {j \in k..Len(text) : text[j] \in SentenceMarks}
    IN  IF marks = {} THEN 0 ELSE CHOOSE j \in marks : \A i \in marks : j <= i

\* re.split with a pattern that has no capturing group: the separators are
\* dropped
RECURSIVE SplitNoCapture(_, _)
SplitNoCapture(text, k) ==
    LET mark == NextMark(text, k)
    IN  IF mark = 0 THEN <<SubSeq(text, k, Len(text))>>
        ELSE <<SubSeq(text, k, mark - 1)>> \o SplitNoCapture(text, EndOfSpaces(text, mark + 1))

\* re.split(r'([.!?]\s*)', text) from position k on: the texts between the
\* separators alternate with the separators themselves, each a sentence
\* mark and the whitespace that follows it
RECURSIVE SplitFrom(_, _)
SplitFrom(text, k) ==
    LET mark == NextMark(text, k)
        e == EndOfSpaces(text, mark + 1)
    IN  IF mark = 0 THEN <<SubSeq(text, k, Len(text))>>
        ELSE <<SubSeq(text, k, mark - 1), SubSeq(text, mark, e - 1)>> \o SplitFrom(text, e)

\* the loop over sentences[i] from the i-th one on (i counts from 1, the code
\* counts from 0), with the buffer it has, and the flush after the loop
RECURSIVE YieldFrom(_, _, _)
YieldFrom(sentences, i, buffer) ==
    IF i > Len(sentences)
    THEN IF buffer # <<>> THEN <<buffer>> ELSE <<>>
    ELSE LET b == buffer \o sentences[i]
         IN  IF (i - 1) % 2 = 1 \/ Len(b) >= BufferLimit
             THEN <<b>> \o YieldFrom(sentences, i + 1, <<>>)
             ELSE YieldFrom(sentences, i + 1, b)

\* the chunking of a cached answer that loses the separators
StreamCachedNoCapture(cached_result) == YieldFrom(SplitNoCapture(cached_result, 1), 1, <<>>)

\* _stream_process on a cache hit: the chunks it yields
StreamCached(cached_result) == YieldFrom(SplitFrom(cached_result, 1), 1, <<>>)

\* what the consumer of a stream has once it has put the chunks together
RECURSIVE Join(_)
Join(cs) == IF cs = <<>> THEN <<>> ELSE Head(cs) \o Join(Tail(cs))

\* complexity > 0.7 and self.use_deeper_tool
UsesDeepTool(q) == complexity_of[q] > ComplexityThreshold /\ use_deeper_tool

\* the note is appended when contradictions were found and the answer has
\* no <think>
WithNote(answer, contradictions) ==
    IF contradictions /\ Find(answer, ThinkOpen) = 0
    THEN Append(answer, ContradictionNote)
    ELSE answer

\* re.sub(r'<think>.*?</think>\s*', '', answer, flags=re.DOTALL)
RECURSIVE StripThink(_)
StripThink(a) ==
    LET i == Find(a, ThinkOpen)
        rest == SubSeq(a, i + 1, Len(a))
        j == Find(rest, ThinkClose)
    IN  IF i = 0 \/ j = 0
        THEN a
        ELSE SubSeq(a, 1, i - 1) \o StripThink(SubSeq(rest, j + 1, Len(rest)))

\* if "<think>" in answer and "</think>" in answer: clean_answer = re.sub(...)
\* else: clean_answer = answer
CleanThink(a) ==
    IF Find(a, ThinkOpen) > 0 /\ Find(a, ThinkClose) > 0 THEN StripThink(a) ELSE a

\* the run of the coordinator or of the deep research tool raised
RunRaised == <<"raise">>

\* the answers of coordinator.process_query: what synthesize returned
RunAnswers == {Synthesize(llm) : llm \in LLMAnswers \cup {LLMRaise}}

\* the answers of coordinator.process_query_stream: what synthesize returned,
\* cut at the citations header
StreamRunAnswers == {CleanCitations(Synthesize(llm)) : llm \in LLMAnswers \cup {LLMRaise}}

\* the threshold test with >= in place of >
HighInclusive(plan) == plan.complexity >= ComplexityThreshold

\* if complexity > 0.7
High(plan) == plan.complexity > ComplexityThreshold

\* the synthesizer called twice
SynthCallTwice(calls, res, tp) ==
    calls \o <<[results |-> res, thinking |-> tp], [results |-> res, thinking |-> tp]>>

\* self.synthesizer.synthesize(query, all_results, retrieval_plan, thinking_process)
SynthCall(calls, res, tp) == Append(calls, [results |-> res, thinking |-> tp])

\* thinking_process = None
NoThinking == <<[by |-> 0, kind |-> "None", task |-> 0]>>

\* the outcomes of the LLM call of a thinking step that runs only when the
\* complexity is above the threshold
ThinkOutcomes(plan) == IF High(plan) THEN {"ok", "raise"} ELSE {"ok"}

\* whether the chain_exploration task needs entities from the earlier results
NeedsExtraction(task) == task.type = "chain_exploration" /\ ~task.entities

FoundOutcomes(task, res) == IF NeedsExtraction(task) THEN ExtractOutcomes(res) ELSE {TRUE}

\* update_thinking_based_on_verification([]) after the "update my thinking"
\* step: the summary step, the LLM call, the updated-thinking step
FinalThinking(e, r, think) ==
    LET e1 == AddReasoningStep(e, Step(r, "final_prompt", 0))
        e2 == AddReasoningStep(e1, Step(r, "verification_summary", 0))
    IN  IF think = "raise" THEN e2 ELSE AddReasoningStep(e2, Step(r, "updated_thinking", 0))

\* the steps FinalThinking appends
FinalSteps(r, think) ==
    <<Step(r, "final_prompt", 0), Step(r, "verification_summary", 0)>>
      \o (IF think = "raise" THEN <<>> ELSE <<Step(r, "updated_thinking", 0)>>)

\* ------------------------------------------------------------ process_query
\* process_query up to the task loop: the plan, the engine's initialization,
\* the initial thinking, the sort
PQ_Start(r, plans) ==
    /\ UNCHANGED <<agentVars, engineVars, otherVars>>
    /\ pc[r] = "idle"
    /\ \E plan \in plans :
         \E think \in ThinkOutcomes(plan) :
           LET tr0 == LogStep(LogStep(LogStep(ResetTrace(execution_trace), "generating_plan", 0),
                                      "plan_generated", 0), "thinking_init", 0)
               e0 == InitializeWithQuery(thinking_engine, r)
               tr1 == IF High(plan) THEN LogStep(tr0, "initial_thinking", 0) ELSE tr0
               ok == think = "ok"
           IN  /\ mode' = [mode EXCEPT ![r] = "sync"]
               /\ retrieval_plan' = [retrieval_plan EXCEPT ![r] = plan]
               /\ thinking_engine' =
                    IF High(plan) /\ ok THEN AddReasoningStep(e0, Step(r, "initial", 0)) ELSE e0
               /\ own_steps' = [own_steps EXCEPT ![r] =
                    IF High(plan) /\ ok THEN <<Step(r, "initial", 0)>> ELSE <<>>]
               /\ execution_trace' =
                    IF High(plan) /\ ok THEN LogStep(tr1, "initial_thinking_complete", 0) ELSE tr1
               /\ tasks' = [tasks EXCEPT ![r] = IF ok THEN SortTasks(plan.tasks) ELSE <<>>]
               /\ pc' = [pc EXCEPT ![r] = IF ok THEN "sync_loop" ELSE "raised"]
    /\ UNCHANGED <<idx, all_results, thinking_process, final_answer, chunks, dispatched,
                   retriever_calls, outcomes, synth_calls>>

\* one iteration of the task loop of process_query
PQ_Task(r) ==
    /\ UNCHANGED <<agentVars, engineVars, otherVars>>
    /\ pc[r] = "sync_loop"
    /\ idx[r] < Len(tasks[r])
    /\ LET i == tasks[r][idx[r] + 1]
           task == retrieval_plan[r].tasks[i]
           ty == task.type
           res == all_results[r]
           e1 == AddReasoningStep(thinking_engine, Step(r, "task", i))
           tr1 == LogStep(execution_trace, StartEvent[ty], i)
       IN  \E found \in FoundOutcomes(task, res) :
             \E out \in (IF found THEN RetrieverOutcomes ELSE {"skip"}) :
               /\ execution_trace' = LogStep(tr1, TaskEvent(ty, out), i)
               /\ all_results' = [all_results EXCEPT ![r] =
                    IF out = "ok" THEN AddResult(res, ty, i) ELSE res]
               /\ outcomes' = [outcomes EXCEPT ![r] = Append(@, out)]
               /\ thinking_engine' =
                    IF out = "ok" THEN AddReasoningStep(e1, Step(r, "result", i)) ELSE e1
               /\ own_steps' = [own_steps EXCEPT ![r] =
                    IF out = "ok" THEN @ \o <<Step(r, "task", i), Step(r, "result", i)>>
                    ELSE Append(@, Step(r, "task", i))]
               /\ retriever_calls' = [retriever_calls EXCEPT ![r] =
                    IF out = "skip" THEN @ ELSE Append(@, i)]
               /\ dispatched' = [dispatched EXCEPT ![r] = Append(@, i)]
               /\ idx' = [idx EXCEPT ![r] = @ + 1]
    /\ UNCHANGED <<pc, mode, retrieval_plan, tasks, thinking_process, final_answer, chunks,
                   synth_calls>>

\* process_query after the task loop: the final thinking, the synthesis
PQ_Finish(r) ==
    /\ UNCHANGED <<agentVars, engineVars, otherVars>>
    /\ pc[r] = "sync_loop"
    /\ idx[r] = Len(tasks[r])
    /\ LET plan == retrieval_plan[r] IN
       \E think \in ThinkOutcomes(plan) :
         \E llm \in CoordAnswers \cup {LLMRaise} :
           LET high == High(plan)
               ok == think = "ok"
               e1 == IF high THEN FinalThinking(thinking_engine, r, think) ELSE thinking_engine
               tr1 == IF high THEN LogStep(execution_trace, "final_thinking", 0)
                      ELSE execution_trace
               tr2 == IF high THEN LogStep(tr1, "final_thinking_complete", 0) ELSE tr1
               tp == IF high THEN GetFullThinking(e1) ELSE NoThinking
           IN  /\ thinking_engine' = e1
               /\ own_steps' = [own_steps EXCEPT ![r] =
                    IF high THEN @ \o FinalSteps(r, think) ELSE @]
               /\ IF ok
                  THEN /\ execution_trace' =
                            LogStep(LogStep(tr2, "synthesizing", 0), "synthesis_completed", 0)
                       /\ thinking_process' = [thinking_process EXCEPT ![r] = tp]
                       /\ synth_calls' = [synth_calls EXCEPT ![r] =
                            SynthCall(@, all_results[r], tp)]
                       /\ final_answer' = [final_answer EXCEPT ![r] = Synthesize(llm)]
                       /\ pc' = [pc EXCEPT ![r] = "done"]
                  ELSE /\ execution_trace' = tr1
                       /\ pc' = [pc EXCEPT ![r] = "raised"]
                       /\ UNCHANGED <<thinking_process, synth_calls, final_answer>>
    /\ UNCHANGED <<mode, retrieval_plan, tasks, idx, all_results, chunks, dispatched,
                   retriever_calls, outcomes>>

\* ----------------------------------------------------- process_query_stream
\* a chunk a stream yields: what it is and the task it belongs to
Chunk(kind, t) == [kind |-> kind, task |-> t]

\* retrieval_plan.get("knowledge_areas", []): "absent" when the plan has no
\* such key, "strings" for a list of strings, "other" for a value that is
\* truthy and that [:3] or ', '.join refuses (a number, a list of objects)
KnowledgeAreas(plan) ==
    IF "knowledge_areas" \in DOMAIN plan THEN plan.knowledge_areas ELSE "absent"

\* whether the plan summary of process_query_stream raises
SummaryRaises(plan) == KnowledgeAreas(plan) = "other"

\* process_query_stream up to the task loop
PS_Start(r, plans) ==
    /\ UNCHANGED <<agentVars, engineVars, otherVars>>
    /\ pc[r] = "idle"
    /\ \E plan \in plans :
         \E think \in (IF SummaryRaises(plan) THEN {"ok"} ELSE ThinkOutcomes(plan)) :
           LET e0 == InitializeWithQuery(thinking_engine, r)
               ok == think = "ok" /\ ~SummaryRaises(plan)
               c0 == <<Chunk("planning", 0), Chunk("plan_summary", 0)>>
               c1 == IF High(plan) THEN Append(c0, Chunk("initial_thinking", 0)) ELSE c0
           IN  /\ mode' = [mode EXCEPT ![r] = "stream"]
               /\ retrieval_plan' = [retrieval_plan EXCEPT ![r] = plan]
               /\ thinking_engine' =
                    CASE SummaryRaises(plan) -> thinking_engine
                      [] High(plan) /\ ok -> AddReasoningStep(e0, Step(r, "initial", 0))
                      [] OTHER -> e0
               /\ own_steps' = [own_steps EXCEPT ![r] =
                    IF High(plan) /\ ok THEN <<Step(r, "initial", 0)>> ELSE <<>>]
               /\ chunks' = [chunks EXCEPT ![r] =
                    CASE SummaryRaises(plan) -> <<Chunk("planning", 0)>>
                      [] High(plan) /\ ok -> Append(c1, Chunk("thinking_summary", 0))
                      [] OTHER -> c1]
               /\ tasks' = [tasks EXCEPT ![r] = IF ok THEN SortTasks(plan.tasks) ELSE <<>>]
               /\ pc' = [pc EXCEPT ![r] = IF ok THEN "st_loop" ELSE "raised"]
    /\ UNCHANGED <<idx, all_results, thinking_process, final_answer, dispatched,
                   retriever_calls, outcomes, synth_calls, execution_trace>>

\* one iteration of the task loop of process_query_stream, up to the await
\* of the retriever (or to the continue of a skipped chain_exploration)
PS_TaskBegin(r) ==
    /\ UNCHANGED <<agentVars, engineVars, otherVars>>
    /\ pc[r] = "st_loop"
    /\ idx[r] < Len(tasks[r])
    /\ LET i == tasks[r][idx[r] + 1]
           task == retrieval_plan[r].tasks[i]
           ty == task.type
           res == all_results[r]
           c0 == Append(chunks[r], Chunk("task_start", i))
           c1 == CASE ty = "exploration" -> Append(c0, Chunk("exploration_start", i))
                   [] ty = "chain_exploration" -> Append(c0, Chunk("chain_start", i))
                   [] OTHER -> c0
       IN  \E found \in FoundOutcomes(task, res) :
             /\ chunks' = [chunks EXCEPT ![r] =
                  CASE ~found -> Append(c1, Chunk("chain_skip", i))
                    [] found /\ NeedsExtraction(task) -> Append(c1, Chunk("entities", i))
                    [] OTHER -> c1]
             /\ retriever_calls' = [retriever_calls EXCEPT ![r] =
                  IF found THEN Append(@, i) ELSE @]
             /\ pc' = [pc EXCEPT ![r] = IF found THEN "st_await" ELSE "st_loop"]
             /\ thinking_engine' = AddReasoningStep(thinking_engine, Step(r, "task", i))
             /\ own_steps' = [own_steps EXCEPT ![r] = Append(@, Step(r, "task", i))]
             /\ dispatched' = [dispatched EXCEPT ![r] = Append(@, i)]
             /\ outcomes' = [outcomes EXCEPT ![r] = IF found THEN @ ELSE Append(@, "skip")]
             /\ idx' = [idx EXCEPT ![r] = @ + 1]
    /\ UNCHANGED <<mode, retrieval_plan, tasks, all_results, thinking_process, final_answer,
                   synth_calls, execution_trace>>

\* the awaited retriever call of the current task returns or raises
PS_TaskEnd(r) ==
    /\ UNCHANGED <<agentVars, engineVars, otherVars>>
    /\ pc[r] = "st_await"
    /\ LET i == tasks[r][idx[r]]
           ty == retrieval_plan[r].tasks[i].type
           res == all_results[r]
       IN  \E out \in RetrieverOutcomes :
             /\ all_results' = [all_results EXCEPT ![r] =
                  IF out = "ok" THEN AddResult(res, ty, i) ELSE res]
             /\ outcomes' = [outcomes EXCEPT ![r] = Append(@, out)]
             /\ thinking_engine' =
                  IF out = "ok" THEN AddReasoningStep(thinking_engine, Step(r, "result", i))
                  ELSE thinking_engine
             /\ own_steps' = [own_steps EXCEPT ![r] =
                  IF out = "ok" THEN Append(@, Step(r, "result", i)) ELSE @]
             /\ chunks' = [chunks EXCEPT ![r] =
                  CASE out = "ok" -> Append(@, Chunk("task_done", i))
                    [] out = "raise" -> Append(@, Chunk("task_failed", i))
                    [] OTHER -> @]
    /\ pc' = [pc EXCEPT ![r] = "st_loop"]
    /\ UNCHANGED <<mode, retrieval_plan, tasks, idx, thinking_process, final_answer,
                   dispatched, retriever_calls, synth_calls, execution_trace>>

\* process_query_stream after the task loop, up to the await of the synthesis
PS_Final(r) ==
    /\ UNCHANGED <<agentVars, engineVars, otherVars>>
    /\ pc[r] = "st_loop"
    /\ idx[r] = Len(tasks[r])
    /\ LET plan == retrieval_plan[r] IN
       \E think \in ThinkOutcomes(plan) :
         LET high == High(plan)
             ok == think = "ok"
             e1 == IF high THEN FinalThinking(thinking_engine, r, think) ELSE thinking_engine
             c1 == IF high THEN Append(chunks[r], Chunk("final_thinking", 0)) ELSE chunks[r]
             c2 == IF high THEN Append(c1, Chunk("thinking_summary", 0)) ELSE c1
             tp == IF high THEN GetFullThinking(e1) ELSE NoThinking
         IN  /\ thinking_engine' = e1
             /\ own_steps' = [own_steps EXCEPT ![r] =
                  IF high THEN @ \o FinalSteps(r, think) ELSE @]
             /\ IF ok
                THEN /\ chunks' = [chunks EXCEPT ![r] = Append(c2, Chunk("synthesizing", 0))]
                     /\ thinking_process' = [thinking_process EXCEPT ![r] = tp]
                     /\ synth_calls' = [synth_calls EXCEPT ![r] =
                          SynthCall(@, all_results[r], tp)]
                     /\ pc' = [pc EXCEPT ![r] = "st_synth"]
                ELSE /\ chunks' = [chunks EXCEPT ![r] = c1]
                     /\ pc' = [pc EXCEPT ![r] = "raised"]
                     /\ UNCHANGED <<thinking_process, synth_calls>>
    /\ UNCHANGED <<mode, retrieval_plan, tasks, idx, all_results, final_answer, dispatched,
                   retriever_calls, outcomes, execution_trace>>

\* the awaited synthesis returns; the cleaned answer is the last chunk
PS_Synth(r) ==
    /\ UNCHANGED <<agentVars, engineVars, otherVars>>
    /\ pc[r] = "st_synth"
    /\ \E llm \in CoordAnswers \cup {LLMRaise} :
         /\ final_answer' = [final_answer EXCEPT ![r] = Synthesize(llm)]
         /\ chunks' = [chunks EXCEPT ![r] =
              Append(@, [kind |-> "answer", task |-> 0,
                         text |-> CleanCitations(Synthesize(llm))])]
    /\ pc' = [pc EXCEPT ![r] = "done"]
    /\ UNCHANGED <<mode, retrieval_plan, tasks, idx, all_results, thinking_process,
                   dispatched, retriever_calls, outcomes, own_steps, synth_calls,
                   execution_trace, thinking_engine>>

\* ------------------------------------------------------------ specifications
InitCoord ==
    /\ pc = [r \in Requests |-> "idle"]
    /\ mode = [r \in Requests |-> "none"]
    /\ retrieval_plan = [r \in Requests |-> NoPlan]
    /\ tasks = [r \in Requests |-> <<>>]
    /\ idx = [r \in Requests |-> 0]
    /\ all_results = [r \in Requests |-> EmptyResults]
    /\ thinking_process = [r \in Requests |-> NoThinking]
    /\ final_answer = [r \in Requests |-> NoAnswer]
    /\ chunks = [r \in Requests |-> <<>>]
    /\ dispatched = [r \in Requests |-> <<>>]
    /\ retriever_calls = [r \in Requests |-> <<>>]
    /\ outcomes = [r \in Requests |-> <<>>]
    /\ own_steps = [r \in Requests |-> <<>>]
    /\ synth_calls = [r \in Requests |-> <<>>]
    /\ execution_trace = <<>>
    /\ thinking_engine = NewEngine

\* no request has arrived at the fusion agent
NoRequests ==
    /\ a_pc = [r \in Requests |-> "idle"]
    /\ a_handler = [r \in Requests |-> "none"]
    /\ a_question = [r \in Requests |-> "none"]
    /\ a_thread = [r \in Requests |-> "none"]
    /\ a_answer = [r \in Requests |-> NoAnswer]
    /\ a_returned = [r \in Requests |-> NoAnswer]
    /\ a_hit = [r \in Requests |-> "none"]
    /\ a_computes = [r \in Requests |-> 0]
    /\ a_log = [r \in Requests |-> <<>>]
    /\ a_inflight = [r \in Requests |-> {}]
    /\ a_held = [r \in Requests |-> Miss]

\* the fusion agent before any request
AgentIdle ==
    /\ NoRequests
    /\ session_cache = [k \in Threads \X Questions |-> Miss]
    /\ global_cache = [q \in Questions |-> Miss]

\* no operation has been called on the thinking engine from outside a run
EngineIdle ==
    /\ e_last = NoOp
    /\ e_before = NewEngine
    /\ e_ops = 0

\* the global search tool before any call
ToolIdle ==
    /\ tool_cache = [k \in ToolKeys |-> ToolMiss]
    /\ s_last = NoCall
    /\ s_prev = NoCall

\* DBConnectionManager.__init__: an empty pool, no caller
PoolIdle ==
    /\ session_pool = <<>>
    /\ db_pc = [c \in Requests |-> "idle"]
    /\ db_held = [c \in Requests |-> 0]
    /\ db_closed = 0
    /\ db_created = 0

\* no text is being chunked
ChunkerIdle ==
    /\ all_tokens = [len |-> 0, ends |-> {}]
    /\ chunk_size = 1
    /\ overlap = 0
    /\ start_pos = 0
    /\ text_chunks = <<>>
    /\ prev_start = 0 - 1
    /\ k_pc = "idle"

\* no cache hit has been streamed, the pool and the chunker are idle
LaterIdle ==
    /\ a_chunks = [r \in Requests |-> <<>>]
    /\ PoolIdle
    /\ ChunkerIdle

\* no call on the tool or on the planner from outside a run, the clock at 0
OtherIdle ==
    /\ ToolIdle
    /\ tool_env = [graph |-> "some", keywords |-> "list", map |-> "text"]
    /\ p_last = NoPlanCall
    /\ clock = 0
    /\ LaterIdle

\* a coordinator on its own
Init ==
    /\ InitCoord
    /\ AgentIdle
    /\ EngineIdle
    /\ OtherIdle
    /\ use_deeper_tool = TRUE
    /\ complexity_of = [q \in Questions |-> ComplexityThreshold]

\* one request at a time on the coordinator, in either mode
Next ==
    \/ PQ_Start(1, Plans)
    \/ PQ_Task(1)
    \/ PQ_Finish(1)
    \/ PS_Start(1, Plans)
    \/ PS_TaskBegin(1)
    \/ PS_TaskEnd(1)
    \/ PS_Final(1)
    \/ PS_Synth(1)

Spec == Init /\ [][Next]_vars

\* process_query alone
NextSync ==
    \/ PQ_Start(1, Plans)
    \/ PQ_Task(1)
    \/ PQ_Finish(1)

SpecSync == Init /\ [][NextSync]_vars

\* the plans with a chain_exploration task that supplies no entities
ChainPlans ==
    {plan \in Plans : \E k \in 1..Len(plan.tasks) : NeedsExtraction(plan.tasks[k])}

\* the runs, in either mode, of the plans that need entities extracted
NextChain ==
    \/ PQ_Start(1, ChainPlans)
    \/ PQ_Task(1)
    \/ PQ_Finish(1)
    \/ PS_Start(1, ChainPlans)
    \/ PS_TaskBegin(1)
    \/ PS_TaskEnd(1)
    \/ PS_Final(1)
    \/ PS_Synth(1)

SpecChain == Init /\ [][NextChain]_vars

\* the plans both modes are run on: local_search and chain_exploration
\* tasks, with the knowledge areas the LLM may write into the plan
BothPlans ==
    [complexity : Complexities,
     tasks : SeqsUpTo({t \in Tasks : /\ t.priority = NoPriority
                                     /\ t.type \in {"local_search", "chain_exploration"}
                                     /\ ~t.entities}, MaxTasks),
     knowledge_areas : {"absent", "strings", "other"}]

\* a process_query run, then a process_query_stream run of the same plan on
\* the same coordinator
NextBoth ==
    \/ PQ_Start(1, BothPlans)
    \/ PQ_Task(1)
    \/ PQ_Finish(1)
    \/ pc[1] = "done" /\ PS_Start(2, {retrieval_plan[1]})
    \/ PS_TaskBegin(2)
    \/ PS_TaskEnd(2)
    \/ PS_Final(2)
    \/ PS_Synth(2)

SpecBoth == Init /\ [][NextBoth]_vars

\* process_query_stream calls of several requests on one coordinator,
\* interleaving at their await points
NextStreams ==
    \E r \in Requests :
        \/ PS_Start(r, StreamPlans)
        \/ PS_TaskBegin(r)
        \/ PS_TaskEnd(r)
        \/ PS_Final(r)
        \/ PS_Synth(r)

SpecStreams == Init /\ [][NextStreams]_vars

\* -------------------------------------------------------------- fusion agent
\* FusionGraphRAGAgent.__init__: empty caches; the deeper tool loaded or not
InitAgent ==
    /\ InitCoord
    /\ AgentIdle
    /\ EngineIdle
    /\ OtherIdle
    /\ use_deeper_tool \in BOOLEAN
    /\ complexity_of \in [Questions -> Complexities]

\* a request arrives at handler h on thread t with question q
AG_Start(r, h, t, q) ==
    /\ a_pc[r] = "idle"
    /\ a_handler' = [a_handler EXCEPT ![r] = h]
    /\ a_thread' = [a_thread EXCEPT ![r] = t]
    /\ a_question' = [a_question EXCEPT ![r] = q]
    /\ a_inflight' = [a_inflight EXCEPT ![r] =
         {o \in Requests : a_pc[o] \notin {"idle", "done"}}]
    /\ a_held' = [a_held EXCEPT ![r] = CacheGet(global_cache, q)]
    /\ a_pc' = [a_pc EXCEPT ![r] = IF h = "generate" THEN "g_global" ELSE "s_session"]
    /\ UNCHANGED <<a_answer, a_returned, a_hit, a_computes, a_log, session_cache,
                   global_cache, use_deeper_tool, complexity_of>>
    /\ UNCHANGED <<coordVars, engineVars, otherVars>>

\* _generate_node: global_result = self.global_cache_manager.get(question)
AG_GlobalGet(r) ==
    /\ a_pc[r] = "g_global"
    /\ LET v == CacheGet(global_cache, a_question[r])
       IN  /\ a_log' = [a_log EXCEPT ![r] = Append(@, CacheOp("get", "global", v))]
           /\ a_hit' = [a_hit EXCEPT ![r] = IF Truthy(v) THEN "global" ELSE @]
           /\ a_returned' = [a_returned EXCEPT ![r] = IF Truthy(v) THEN v ELSE @]
           /\ a_pc' = [a_pc EXCEPT ![r] = IF Truthy(v) THEN "done" ELSE "g_session"]
    /\ UNCHANGED <<a_handler, a_question, a_thread, a_answer, a_computes, a_inflight,
                   a_held, session_cache, global_cache, use_deeper_tool, complexity_of>>
    /\ UNCHANGED <<coordVars, engineVars, otherVars>>

\* _generate_node: cached_result = self.cache_manager.get(question, thread_id=thread_id)
AG_SessionGet(r) ==
    /\ a_pc[r] = "g_session"
    /\ LET v == CacheGet(session_cache, <<a_thread[r], a_question[r]>>)
       IN  /\ a_log' = [a_log EXCEPT ![r] = Append(@, CacheOp("get", "session", v))]
           /\ a_hit' = [a_hit EXCEPT ![r] = IF Truthy(v) THEN "session" ELSE @]
           /\ a_answer' = [a_answer EXCEPT ![r] = IF Truthy(v) THEN v ELSE @]
           /\ a_pc' = [a_pc EXCEPT ![r] = IF Truthy(v) THEN "g_through" ELSE "g_compute"]
    /\ UNCHANGED <<a_handler, a_question, a_thread, a_returned, a_computes,
                   a_inflight, a_held, session_cache, global_cache, use_deeper_tool,
                   complexity_of>>
    /\ UNCHANGED <<coordVars, engineVars, otherVars>>

\* _generate_node on a session hit: the hit is written to the global cache
\* and returned
AG_WriteThrough(r) ==
    /\ a_pc[r] = "g_through"
    /\ global_cache' = CacheSet(global_cache, a_question[r], a_answer[r])
    /\ a_log' = [a_log EXCEPT ![r] = Append(@, CacheOp("set", "global", a_answer[r]))]
    /\ a_returned' = [a_returned EXCEPT ![r] = a_answer[r]]
    /\ a_pc' = [a_pc EXCEPT ![r] = "done"]
    /\ UNCHANGED <<a_handler, a_question, a_thread, a_answer, a_hit, a_computes,
                   a_inflight, a_held, session_cache, use_deeper_tool, complexity_of>>
    /\ UNCHANGED <<coordVars, engineVars, otherVars>>

\* _generate_node on a miss of both caches: the deep research tool or the
\* coordinator answers; an exception ends the request with the apology
AG_Compute(r) ==
    /\ a_pc[r] = "g_compute"
    /\ \E out \in (IF UsesDeepTool(a_question[r]) THEN DeepAnswers ELSE RunAnswers) \cup {RunRaised} :
       \E contradictions \in (IF UsesDeepTool(a_question[r]) /\ out # RunRaised
                               THEN BOOLEAN ELSE {FALSE}) :
         LET answer == IF UsesDeepTool(a_question[r]) THEN WithNote(out, contradictions)
                       ELSE out
             clean == IF UsesDeepTool(a_question[r]) THEN CleanThink(answer) ELSE answer
         IN  /\ a_computes' = [a_computes EXCEPT ![r] = @ + 1]
             /\ a_answer' = [a_answer EXCEPT ![r] = IF out = RunRaised THEN @ ELSE clean]
             /\ a_returned' = [a_returned EXCEPT ![r] = IF out = RunRaised THEN Apology ELSE @]
             /\ a_pc' = [a_pc EXCEPT ![r] = IF out = RunRaised THEN "done" ELSE "g_set_session"]
    /\ UNCHANGED <<a_handler, a_question, a_thread, a_hit, a_log, a_inflight, a_held,
                   session_cache, global_cache, use_deeper_tool, complexity_of>>
    /\ UNCHANGED <<coordVars, engineVars, otherVars>>

\* _generate_node: self.cache_manager.set(question, clean_answer, thread_id=thread_id)
AG_SetSession(r) ==
    /\ a_pc[r] = "g_set_session"
    /\ LET v == a_answer[r]
       IN  /\ session_cache' = CacheSet(session_cache, <<a_thread[r], a_question[r]>>, v)
           /\ a_log' = [a_log EXCEPT ![r] = Append(@, CacheOp("set", "session", v))]
    /\ a_pc' = [a_pc EXCEPT ![r] = "g_set_global"]
    /\ UNCHANGED <<a_handler, a_question, a_thread, a_answer, a_returned, a_hit,
                   a_computes, a_inflight, a_held, global_cache, use_deeper_tool,
                   complexity_of>>
    /\ UNCHANGED <<coordVars, engineVars, otherVars>>

\* _generate_node: self.global_cache_manager.set(question, clean_answer), and
\* the return of clean_answer
AG_SetGlobal(r) ==
    /\ a_pc[r] = "g_set_global"
    /\ LET v == a_answer[r]
       IN  /\ global_cache' = CacheSet(global_cache, a_question[r], v)
           /\ a_log' = [a_log EXCEPT ![r] = Append(@, CacheOp("set", "global", v))]
    /\ a_returned' = [a_returned EXCEPT ![r] = a_answer[r]]
    /\ a_pc' = [a_pc EXCEPT ![r] = "done"]
    /\ UNCHANGED <<a_handler, a_question, a_thread, a_answer, a_hit, a_computes,
                   a_inflight, a_held, session_cache, use_deeper_tool, complexity_of>>
    /\ UNCHANGED <<coordVars, engineVars, otherVars>>

\* _stream_process: cached_result = self.cache_manager.get(query.strip(), thread_id);
\* a hit is yielded sentence by sentence
AS_SessionGet(r) ==
    /\ a_pc[r] = "s_session"
    /\ LET v == CacheGet(session_cache, <<a_thread[r], Strip(a_question[r])>>)
       IN  /\ a_log' = [a_log EXCEPT ![r] = Append(@, CacheOp("get", "session", v))]
           /\ a_hit' = [a_hit EXCEPT ![r] = IF Truthy(v) THEN "session" ELSE @]
           /\ a_chunks' = [a_chunks EXCEPT ![r] = IF Truthy(v) THEN StreamCached(v) ELSE @]
           /\ a_returned' = [a_returned EXCEPT ![r] =
                IF Truthy(v) THEN Join(StreamCached(v)) ELSE @]
           /\ a_pc' = [a_pc EXCEPT ![r] = IF Truthy(v) THEN "done" ELSE "s_compute"]
    /\ UNCHANGED <<a_handler, a_question, a_thread, a_answer, a_computes, a_inflight,
                   a_held, session_cache, global_cache, use_deeper_tool, complexity_of>>
    /\ UNCHANGED <<coordVars, engineVars, toolVars, p_last, clock, laterVars>>

\* _stream_process on a session miss: the deep research tool's stream, whose
\* final answer is cleaned and cached, or the coordinator's stream, whose
\* answer is not cached
AS_Compute(r) ==
    /\ a_pc[r] = "s_compute"
    /\ LET q == a_question[r]
           isDeep == UsesDeepTool(q)
       IN  \E out \in (IF isDeep THEN DeepAnswers ELSE StreamRunAnswers) \cup {RunRaised} :
             LET cached == isDeep /\ out # RunRaised
                 clean == CleanThink(out)
                 s1 == CacheSet(session_cache, <<a_thread[r], q>>, clean)
                 g1 == CacheSet(global_cache, q, clean)
             IN  /\ a_computes' = [a_computes EXCEPT ![r] = @ + 1]
                 /\ a_answer' = [a_answer EXCEPT ![r] =
                      CASE out = RunRaised -> @
                        [] isDeep -> clean
                        [] OTHER -> out]
                 /\ a_returned' = [a_returned EXCEPT ![r] =
                      CASE out = RunRaised -> StreamError
                        [] isDeep -> clean
                        [] OTHER -> out]
                 /\ session_cache' = IF cached THEN s1 ELSE session_cache
                 /\ global_cache' = IF cached THEN g1 ELSE global_cache
                 /\ a_log' = [a_log EXCEPT ![r] =
                      IF cached
                      THEN @ \o <<CacheOp("set", "session", clean), CacheOp("set", "global", clean)>>
                      ELSE @]
    /\ a_pc' = [a_pc EXCEPT ![r] = "done"]
    /\ UNCHANGED <<a_handler, a_question, a_thread, a_hit, a_inflight, a_held,
                   use_deeper_tool, complexity_of>>
    /\ UNCHANGED <<coordVars, engineVars, otherVars>>

\* requests to either handler, any number of them at once, every cache
\* operation a step of its own
NextAgent ==
    \E r \in Requests :
        \/ \E h \in Handlers, t \in Threads, q \in Questions : AG_Start(r, h, t, q)
        \/ AG_GlobalGet(r)
        \/ AG_SessionGet(r)
        \/ AG_WriteThrough(r)
        \/ AG_Compute(r)
        \/ AG_SetSession(r)
        \/ AG_SetGlobal(r)
        \/ AS_SessionGet(r)
        \/ AS_Compute(r)

SpecAgent == InitAgent /\ [][NextAgent]_vars

\* the pieces the cached answers are made of: a letter, the sentence marks,
\* a blank, and a run of letters as long as the buffer limit
Pieces ==
    {<<"a">>, <<".">>, <<"?">>, <<" ">>, [k \in 1..BufferLimit |-> "a"]}

\* the cached answers, character by character: up to MaxPieces pieces
RECURSIVE TextsUpTo(_)
TextsUpTo(n) ==
    IF n = 0 THEN {<<>>}
    ELSE TextsUpTo(n - 1) \cup {t \o piece : t \in TextsUpTo(n - 1), piece \in Pieces}

HitTexts == TextsUpTo(MaxPieces) \ {<<>>}

\* a fusion agent whose session cache holds an answer to the question, from
\* an earlier request of thread t1
InitHit ==
    /\ InitCoord
    /\ NoRequests
    /\ EngineIdle
    /\ OtherIdle
    /\ \E text \in HitTexts :
         session_cache = [k \in Threads \X Questions |->
                            IF k[1] = "t1" THEN text ELSE Miss]
    /\ global_cache = [q \in Questions |-> Miss]
    /\ use_deeper_tool = TRUE
    /\ complexity_of = [q \in Questions |-> ComplexityThreshold]

\* a streamed request of either thread
NextHit ==
    \/ \E t \in Threads, q \in Questions : AG_Start(1, "stream", t, q)
    \/ AS_SessionGet(1)
    \/ AS_Compute(1)

SpecHit == InitHit /\ [][NextHit]_vars

\* ----------------------------------------------------------- thinking engine
\* what every operation on the thinking engine leaves behind: itself as
\* the last operation, and the engine as it found it
EngineStep(op) ==
    /\ e_last' = op
    /\ e_before' = thinking_engine
    /\ e_ops' = e_ops + 1
    /\ UNCHANGED <<coordRest, agentVars, otherVars>>

E_Initialize ==
    /\ e_ops < MaxEngineOps
    /\ \E q \in Requests :
         /\ thinking_engine' = InitializeWithQuery(thinking_engine, q)
         /\ EngineStep(EngineOp("initialize_with_query", q, "none", "ok"))

E_AddStep ==
    /\ e_ops < MaxEngineOps
    /\ \E c \in StepContents : thinking_engine' = AddReasoningStep(thinking_engine, c)
    /\ EngineStep(EngineOp("add_reasoning_step", "none", "none", "ok"))

E_Branch ==
    /\ e_ops < MaxEngineOps
    /\ \E name \in BranchNames, base \in BranchNames :
         /\ thinking_engine' = BranchReasoning(thinking_engine, name, base)
         /\ EngineStep(EngineOp("branch_reasoning", name, base,
                                IF BranchRaises(thinking_engine, name, base)
                                THEN "raised" ELSE "ok"))

E_Switch ==
    /\ e_ops < MaxEngineOps
    /\ \E name \in BranchNames :
         /\ thinking_engine' = SwitchBranch(thinking_engine, name)
         /\ EngineStep(EngineOp("switch_branch", name, "none",
                                IF name \in DOMAIN thinking_engine.reasoning_tree
                                THEN "ok" ELSE "false"))

E_Merge ==
    /\ e_ops < MaxEngineOps
    /\ \E src \in BranchNames, dst \in BranchNames :
         /\ thinking_engine' = MergeBranches(thinking_engine, src, dst)
         /\ EngineStep(EngineOp("merge_branches", src, dst,
                                IF {src, dst} \subseteq DOMAIN thinking_engine.reasoning_tree
                                THEN "ok" ELSE "false"))

E_CounterFactual ==
    /\ e_ops < MaxEngineOps
    /\ \E llm \in CounterFactualOutcomes :
         /\ thinking_engine' = CounterFactualAnalysis(thinking_engine, llm)
         /\ EngineStep(EngineOp("counter_factual_analysis", CounterFactualBranch, "none",
                                IF BranchRaises(thinking_engine, CounterFactualBranch, "main")
                                   \/ llm # "ok"
                                THEN "raised" ELSE "ok"))

\* any sequence of operations on a thinking engine, from its construction
NextEngine ==
    \/ E_Initialize
    \/ E_AddStep
    \/ E_Branch
    \/ E_Switch
    \/ E_Merge
    \/ E_CounterFactual

SpecEngine == Init /\ [][NextEngine]_vars

\* a caller has a hypothesis verified
E_Verify ==
    /\ e_ops < MaxEngineOps
    /\ \E llm \in VerifyOutcomes :
         /\ thinking_engine' = VerifyHypothesis(thinking_engine, Hypothesis("json", 1), llm)
         /\ EngineStep(EngineOp("verify_hypothesis", "none", "none",
                                IF llm = "raise" THEN "raised" ELSE "ok"))

\* a caller records a query as executed
E_Executed ==
    /\ e_ops < MaxEngineOps
    /\ thinking_engine' = AddExecutedQuery(thinking_engine,
                                            Len(thinking_engine.executed_search_queries) + 1)
    /\ EngineStep(EngineOp("add_executed_query", "none", "none", "ok"))

\* a caller asks for hypotheses
E_Hypotheses ==
    /\ e_ops < MaxEngineOps
    /\ \E resp \in HypothesisResponses :
         /\ thinking_engine' = GenerateHypotheses(thinking_engine, resp)
         /\ EngineStep(EngineOp("generate_hypotheses", "none", "none", "ok"))

\* the operations that fill the fields initialize_with_query resets, and
\* initialize_with_query among them
NextReset ==
    \/ E_Initialize
    \/ E_AddStep
    \/ E_Branch
    \/ E_Verify
    \/ E_Executed
    \/ E_Hypotheses

SpecReset == Init /\ [][NextReset]_vars

\* --------------------------------------------------- truncated reasoning
\* a caller adds a step to the engine
T_AddStep ==
    /\ Len(thinking_engine.all_reasoning_steps) < MaxSteps
    /\ \E c \in TruncSteps : thinking_engine' = AddReasoningStep(thinking_engine, c)
    /\ e_last' = EngineOp("add_reasoning_step", "none", "none", "ok")
    /\ e_before' = thinking_engine
    /\ UNCHANGED <<e_ops, coordRest, agentVars, otherVars>>

\* a caller asks for the truncated reasoning
T_Truncate ==
    /\ e_last' = EngineOp("prepare_truncated_reasoning", "none", "none",
                          PrepareTruncatedReasoning(thinking_engine))
    /\ e_before' = thinking_engine
    /\ UNCHANGED <<thinking_engine, e_ops, coordRest, agentVars, otherVars>>

NextTruncate ==
    \/ T_AddStep
    \/ T_Truncate

SpecTruncate == Init /\ [][NextTruncate]_vars

\* ------------------------------------------------------- iterative search
\* the last generate_next_query returned a query that has not been executed
Pending ==
    /\ e_last.op = "generate_next_query"
    /\ e_last.result.status = "has_query"
    /\ ~HasExecutedQuery(thinking_engine, e_last.result.queries[1])

\* the last generate_next_query returned answer_ready: the run is over
Answered ==
    /\ e_last.op = "generate_next_query"
    /\ e_last.result.status = "answer_ready"

\* the run asks the engine for the next query
S_NextQuery ==
    /\ ~Pending
    /\ ~Answered
    /\ Len(thinking_engine.all_reasoning_steps) < MaxSearchSteps
    /\ \E resp \in SearchResponses :
         /\ thinking_engine' = GenerateNextQuery(thinking_engine, resp)
         /\ e_last' = EngineOp("generate_next_query", resp, "none",
                               [status |-> NextQueryStatus(thinking_engine, resp),
                                queries |-> ExtractQueries(thinking_engine, resp)])
    /\ e_before' = thinking_engine
    /\ UNCHANGED <<e_ops, coordRest, agentVars, otherVars>>

\* the run sends the query out and records it as executed
S_Execute ==
    /\ Pending
    /\ thinking_engine' = AddExecutedQuery(thinking_engine, e_last.result.queries[1])
    /\ e_last' = EngineOp("add_executed_query", e_last.result.queries[1], "none", "ok")
    /\ e_before' = thinking_engine
    /\ UNCHANGED <<e_ops, coordRest, agentVars, otherVars>>

NextSearch ==
    \/ S_NextQuery
    \/ S_Execute

SpecSearch == Init /\ [][NextSearch]_vars

\* -------------------------------------------------------------- hypotheses
\* a caller asks the engine for hypotheses
H_Generate ==
    /\ Len(thinking_engine.all_reasoning_steps) < MaxEngineOps
    /\ \E resp \in HypothesisResponses :
         /\ thinking_engine' = GenerateHypotheses(thinking_engine, resp)
         /\ e_last' = EngineOp("generate_hypotheses", resp, "none", Hypotheses(resp))
    /\ e_before' = thinking_engine
    /\ UNCHANGED <<e_ops, coordRest, agentVars, otherVars>>

SpecHypotheses == Init /\ [][H_Generate]_vars

\* -------------------------------------------------------- global search tool
\* a tool with any graph store and any LLM
InitTool ==
    /\ InitCoord
    /\ AgentIdle
    /\ EngineIdle
    /\ ToolIdle
    /\ tool_env \in ToolEnvs
    /\ p_last = NoPlanCall
    /\ clock = 0
    /\ LaterIdle
    /\ use_deeper_tool = TRUE
    /\ complexity_of = [q \in Questions |-> ComplexityThreshold]

\* GlobalSearchTool.search(query_input)
G_Search ==
    /\ \E input \in ToolInputs :
         LET out == Search(input, tool_cache, tool_env)
         IN  /\ tool_cache' = out.cache
             /\ s_last' = [input |-> input, result |-> out.result]
    /\ s_prev' = s_last
    /\ UNCHANGED <<coordVars, agentVars, engineVars, tool_env, p_last, clock, a_chunks, laterVars>>

SpecTool == InitTool /\ [][G_Search]_vars

\* ------------------------------------------------------------------ planner
\* RetrievalPlannerAgent.plan(query) called on its own
P_Plan ==
    /\ \E resp \in PlannerResponses :
         p_last' = [resp |-> resp, plan |-> Plan(resp).plan, raised |-> Plan(resp).raised]
    /\ UNCHANGED <<coordVars, agentVars, engineVars, toolVars, clock, a_chunks, laterVars>>

\* the planner on its own
SpecPlanner == Init /\ [][P_Plan]_vars

\* process_query on the plans the planner can return
NextPlanned ==
    \/ PQ_Start(1, PlannerPlans)
    \/ PQ_Task(1)
    \/ PQ_Finish(1)

SpecPlanned == Init /\ [][NextPlanned]_vars

\* -------------------------------------------------------------------- trace
\* the plans of the runs whose trace is followed: at most one local search
\* of the default priority
TracePlans ==
    {plan \in Plans : /\ Len(plan.tasks) <= 1
                      /\ \A k \in 1..Len(plan.tasks) :
                           /\ plan.tasks[k].type = "local_search"
                           /\ plan.tasks[k].priority = DefaultPriority}

\* time passes
Tick ==
    /\ clock < MaxClock
    /\ clock' = clock + 1
    /\ UNCHANGED <<coordVars, agentVars, engineVars, toolVars, p_last, a_chunks, laterVars>>

\* a process_query run, and a second one after it on the same coordinator,
\* while time passes
NextTrace ==
    \/ Tick
    \/ PQ_Start(1, TracePlans)
    \/ PQ_Task(1)
    \/ PQ_Finish(1)
    \/ pc[1] \in {"done", "raised"} /\ PQ_Start(2, TracePlans)
    \/ PQ_Task(2)
    \/ PQ_Finish(2)

SpecTrace == Init /\ [][NextTrace]_vars

\* counter-factual analyses on an engine, while time passes
NextCounterFactual ==
    \/ Tick
    \/ E_Initialize
    \/ E_AddStep
    \/ E_CounterFactual

SpecCounterFactual == Init /\ [][NextCounterFactual]_vars

\* ------------------------------------------------------------------- claims
\* the priority the plan gives a task, a task without one counting as 3
ClaimPriority(t) == IF t.priority = NoPriority THEN 3 ELSE t.priority

\* task i of plan ts goes before task j: higher priority, or equal priority
\* and earlier in the plan
Before(ts, i, j) ==
    \/ ClaimPriority(ts[i]) > ClaimPriority(ts[j])
    \/ ClaimPriority(ts[i]) = ClaimPriority(ts[j]) /\ i < j

\* order lists every task of ts once, sorted by (-priority, plan index)
IsPlanOrder(order, ts) ==
    /\ Len(order) = Len(ts)
    /\ {order[k] : k \in 1..Len(order)} = 1..Len(ts)
    /\ \A j, k \in 1..Len(order) : j < k => Before(ts, order[j], order[k])

\* the request is in or past its task loop
InLoop(r) == pc[r] \in {"sync_loop", "st_loop", "st_await", "st_synth", "done"}

\* C1: in both modes the tasks the loop takes are, in order, the plan's tasks
\* sorted by (-priority, plan index), a missing priority counting as 3: the
\* loop has taken a prefix of that order, and all of it once the loop is left.
C1_PlanOrder ==
    \A r \in Requests :
        InLoop(r) =>
            /\ IsPlanOrder(tasks[r], retrieval_plan[r].tasks)
            /\ idx[r] <= Len(tasks[r])
            /\ dispatched[r] = SubSeq(tasks[r], 1, idx[r])
            /\ pc[r] \in {"st_synth", "done"} => dispatched[r] = tasks[r]

\* a finished stream whose plan puts a task without priority before a task of
\* priority 4: the loop took the second task first
C1_Witness ==
    \E r \in Requests :
        /\ pc[r] = "done"
        /\ mode[r] = "stream"
        /\ Len(retrieval_plan[r].tasks) = 2
        /\ retrieval_plan[r].tasks[1].priority = NoPriority
        /\ retrieval_plan[r].tasks[2].priority = 4
        /\ dispatched[r] = <<2, 1>>

\* the position of task i in the sequence of dispatched tasks
DispatchPos(r, i) == CHOOSE k \in 1..Len(dispatched[r]) : dispatched[r][k] = i

BucketNames == {"local", "global", "exploration", "chain_exploration"}

\* C2: in both modes, within each bucket every result comes from a
\* dispatched task of that bucket's type, and a result that stands before
\* another comes from the task dispatched earlier, which is the task of
\* higher priority or, at equal priority, the earlier one of the plan.
C2_BucketOrder ==
    \A r \in Requests : \A b \in BucketNames :
        LET bucket == all_results[r][b]
            ts == retrieval_plan[r].tasks
        IN  /\ \A k \in 1..Len(bucket) :
                 /\ \E d \in 1..Len(dispatched[r]) : dispatched[r][d] = bucket[k].task
                 /\ BucketOf[ts[bucket[k].task].type] = b
            /\ \A j, k \in 1..Len(bucket) :
                 j < k => /\ DispatchPos(r, bucket[j].task) < DispatchPos(r, bucket[k].task)
                          /\ Before(ts, bucket[j].task, bucket[k].task)

\* a finished process_query run with two results in the local bucket, the
\* second task of the plan first
C2_Witness ==
    \E r \in Requests :
        /\ pc[r] = "done"
        /\ mode[r] = "sync"
        /\ Len(all_results[r].local) = 2
        /\ all_results[r].local[1].task = 2
        /\ all_results[r].local[2].task = 1

\* the tasks of request r whose retriever returned a result
Succeeded(r) == {dispatched[r][k] : k \in {j \in 1..Len(outcomes[r]) : outcomes[r][j] = "ok"}}

\* the tasks with a result in some bucket of res
InBuckets(res) ==
    UNION {{res[b][k].task : k \in 1..Len(res[b])} : b \in BucketNames}

Overlap(r, o) == o \in a_inflight[r] \/ r \in a_inflight[o]

\* requests r and o have the same fingerprint: the same question on the same thread
SameFingerprint(r, o) == a_question[r] = a_question[o] /\ a_thread[r] = a_thread[o]

\* a cached value, as the claims read it
ClaimHit(v) == v # <<"None">> /\ v # <<>>

\* the tokens no cached value may contain
Markers == {ThinkOpen, ThinkClose, Citations}

\* the values the two caches hold
CachedValues ==
    {session_cache[k] : k \in DOMAIN session_cache} \cup
    {global_cache[q] : q \in DOMAIN global_cache}

\* C4: of two requests to _generate_node with the same question and thread
\* that were in flight together, at most one runs the retrieval and synthesis,
\* and both return the same answer.
C4_SingleFlight ==
    \A r \in Requests : \A o \in Requests \ {r} :
        ( /\ a_handler[r] = "generate" /\ a_handler[o] = "generate"
          /\ a_pc[r] = "done" /\ a_pc[o] = "done"
          /\ SameFingerprint(r, o)
          /\ Overlap(r, o) )
        => /\ a_computes[r] + a_computes[o] <= 1
           /\ a_returned[r] = a_returned[o]

\* the lookup of _generate_node as C5 states it: session first, the global
\* cache untouched on a session hit, a global hit written into the session
C5_SessionFirst ==
    \A r \in Requests :
        a_handler[r] = "generate" =>
          LET log == a_log[r] IN
          /\ Len(log) >= 1 => log[1] = CacheOp("get", "session", log[1].value)
          /\ (Len(log) >= 1 /\ ClaimHit(log[1].value)) => Len(log) = 1
          /\ Len(log) >= 2 => log[2] = CacheOp("get", "global", log[2].value)
          /\ (Len(log) >= 2 /\ ClaimHit(log[2].value) /\ a_pc[r] = "done")
               => /\ Len(log) = 3
                  /\ log[3] = CacheOp("set", "session", log[2].value)

\* C5: the lookup of _generate_node consults the global cache first; on a
\* global hit the answer is returned and the session cache is neither read nor
\* written; only on a global miss is the session cache consulted, and a session
\* hit is written through into the global cache before it is returned.
C5_GlobalFirst ==
    \A r \in Requests :
        a_handler[r] = "generate" =>
          LET log == a_log[r] IN
          /\ Len(log) >= 1 => log[1] = CacheOp("get", "global", log[1].value)
          /\ (Len(log) >= 1 /\ ClaimHit(log[1].value))
               => /\ Len(log) = 1
                  /\ a_pc[r] = "done"
                  /\ a_returned[r] = log[1].value
          /\ Len(log) >= 2 => log[2] = CacheOp("get", "session", log[2].value)
          /\ (Len(log) >= 2 /\ ClaimHit(log[2].value))
               => /\ Len(log) <= 3
                  /\ a_computes[r] = 0
                  /\ a_pc[r] = "done"
                       => /\ Len(log) = 3
                          /\ log[3] = CacheOp("set", "global", log[2].value)
                          /\ a_returned[r] = log[2].value

\* a request missed the global cache, hit the session cache, wrote the hit
\* through and returned it
C5_Witness ==
    \E r \in Requests :
        /\ a_handler[r] = "generate"
        /\ a_pc[r] = "done"
        /\ a_hit[r] = "session"
        /\ Len(a_log[r]) = 3
        /\ a_returned[r] = a_log[r][3].value

\* C6: a request that arrives when the global cache holds an answer for its
\* question, and that no other request overlaps, returns exactly that answer
\* and runs no retrieval and no synthesis, through either handler.
C6_GlobalHitNoCalls ==
    \A r \in Requests :
        ( /\ a_pc[r] = "done"
          /\ ClaimHit(a_held[r])
          /\ \A o \in Requests \ {r} : ~Overlap(r, o) )
        => /\ a_computes[r] = 0
           /\ a_returned[r] = a_held[r]

\* C7: no cache entry is the text of a run whose synthesis failed.
C7_NoFailureCached == <<SynthError>> \notin CachedValues

\* C8: no value in the session cache or the global cache contains a <think>
\* marker, a </think> marker or a citations section.
C8_CachedSanitized ==
    \A v \in CachedValues : \A m \in Markers : Find(v, m) = 0

\* C9: at the step that completes a request of _generate_node that missed
\* both caches and computed its answer, the session cache of its thread and
\* the global cache both hold, for its question, the answer returned.
C9_CachesHoldReturned ==
    [][\A r \in Requests :
         (a_pc[r] = "g_set_global" /\ a_pc'[r] = "done")
         => /\ session_cache'[<<a_thread[r], a_question[r]>>] = a_returned'[r]
            /\ global_cache'[a_question[r]] = a_returned'[r]]_vars

\* C10: while a streaming request is between its start and its synthesis, the
\* thinking engine it uses holds exactly the reasoning steps it appended
\* itself, in the order it appended them.
C10_EngineNotShared ==
    \A r \in Requests :
        pc[r] \in {"st_loop", "st_await", "st_synth"}
        => GetFullThinking(thinking_engine) = own_steps[r]

\* ------------------------------------------------- claims on process_query
\* the types of the events in the execution trace
TraceTypes == {execution_trace[k].type : k \in 1..Len(execution_trace)}

\* the positions in the execution trace of the events of the types in S
TracePos(S) == {k \in 1..Len(execution_trace) : execution_trace[k].type \in S}

\* the types of the events a task logs
TaskEventTypes ==
    {StartEvent[ty] : ty \in TaskTypes} \cup {CompletedEvent[ty] : ty \in TaskTypes}
      \cup {ErrorEvent[ty] : ty \in TaskTypes} \cup {"chain_exploration_warning"}

\* every position in P comes before every position in Q
AllBefore(P, Q) == \A i \in P : \A j \in Q : i < j

C12_StageOrder ==
    \A r \in Requests :
        mode[r] = "sync" =>
            /\ execution_trace # <<>>
            /\ execution_trace[1].type = "generating_plan"
            /\ TracePos({"generating_plan"}) = {1}
            /\ AllBefore(TracePos({"generating_plan", "plan_generated"}),
                         TracePos({"initial_thinking", "initial_thinking_complete"}))
            /\ AllBefore(TracePos({"initial_thinking", "initial_thinking_complete"}),
                         TracePos(TaskEventTypes))
            /\ AllBefore(TracePos(TaskEventTypes),
                         TracePos({"final_thinking", "final_thinking_complete"}))
            /\ AllBefore(1..Len(execution_trace) \ TracePos({"synthesizing", "synthesis_completed"}),
                         TracePos({"synthesizing"}))
            /\ AllBefore(TracePos({"synthesizing"}), TracePos({"synthesis_completed"}))
            /\ TracePos({"synthesis_completed"}) # {} => TracePos({"synthesizing"}) # {}

\* a finished process_query run whose trace holds the events of every stage
C12_Witness ==
    \E r \in Requests :
        /\ mode[r] = "sync"
        /\ pc[r] = "done"
        /\ Len(dispatched[r]) = 2
        /\ {"generating_plan", "initial_thinking", "final_thinking", "synthesizing",
            "synthesis_completed"} \subseteq TraceTypes

EngineSteps == {thinking_engine.all_reasoning_steps[k] :
                  k \in 1..Len(thinking_engine.all_reasoning_steps)}

\* request r is in the task loop of process_query or past it
PastStart(r) == mode[r] = "sync" /\ pc[r] \in {"sync_loop", "done"}

\* the claim as C14 states it: at complexity 0.7 or below the thinking engine
\* is not initialized and no task changes its step list or its reasoning tree
C14_NoStepsWhenDisabled ==
    \A r \in Requests :
        (PastStart(r) /\ retrieval_plan[r].complexity <= 7) =>
            /\ thinking_engine.msg_history = <<>>
            /\ thinking_engine.all_reasoning_steps = <<>>
            /\ \A b \in DOMAIN thinking_engine.reasoning_tree :
                 thinking_engine.reasoning_tree[b] = <<>>

\* C14: process_query initializes the thinking engine in every run, and every
\* task appends its task step, and every retriever result its summary step,
\* to the step list and to the main branch, whatever the plan's complexity;
\* at complexity 0.7 or below these steps are not given to the synthesizer.
C14_StepsWhateverComplexity ==
    \A r \in Requests :
        PastStart(r) =>
            /\ thinking_engine.msg_history = <<[role |-> "user", query |-> r]>>
            /\ "main" \in DOMAIN thinking_engine.reasoning_tree
            /\ thinking_engine.reasoning_tree["main"] = thinking_engine.all_reasoning_steps
            /\ \A k \in 1..Len(outcomes[r]) :
                 LET i == dispatched[r][k] IN
                 /\ [by |-> r, kind |-> "task", task |-> i] \in EngineSteps
                 /\ [by |-> r, kind |-> "result", task |-> i] \in EngineSteps
                      <=> outcomes[r][k] = "ok"
            /\ (pc[r] = "done" /\ retrieval_plan[r].complexity <= 7) =>
                 synth_calls[r][1].thinking = NoThinking

\* a run at complexity 0.7 has returned and left the steps of its two tasks
\* in the thinking engine
C14_Witness ==
    \E r \in Requests :
        /\ PastStart(r)
        /\ pc[r] = "done"
        /\ retrieval_plan[r].complexity = 7
        /\ outcomes[r] = <<"ok", "ok">>
        /\ Len(thinking_engine.all_reasoning_steps) = 4

\* C15: in both modes, each task whose retriever was called has in the
\* execution trace its start event, followed by exactly one completed or error
\* event of that task.
C15_TaskEvents ==
    \A r \in Requests :
        \A k \in 1..Len(outcomes[r]) :
            outcomes[r][k] # "skip" =>
                LET i == dispatched[r][k]
                    ty == retrieval_plan[r].tasks[i].type
                    starts == {p \in 1..Len(execution_trace) :
                                 Untimed(execution_trace[p]) = [type |-> StartEvent[ty], task |-> i]}
                    ends == {p \in 1..Len(execution_trace) :
                               /\ execution_trace[p].task = i
                               /\ execution_trace[p].type \in {CompletedEvent[ty], ErrorEvent[ty]}}
                IN  /\ Cardinality(starts) = 1
                    /\ Cardinality(ends) = 1
                    /\ AllBefore(starts, ends)

\* C16: a process_query run in which every retriever failed returns the
\* failure message and not a synthesized answer.
C16_AllFailedApology ==
    \A r \in Requests :
        ( /\ mode[r] = "sync"
          /\ pc[r] = "done"
          /\ outcomes[r] # <<>>
          /\ \A k \in 1..Len(outcomes[r]) : outcomes[r][k] = "raise" )
        => /\ final_answer[r] = Apology
           /\ synth_calls[r] = <<>>

\* C17: no process_query run is ended by the failure of the LLM call of a
\* thinking step.
C17_ThinkingFailureRecovered ==
    \A r \in Requests : mode[r] = "sync" => pc[r] # "raised"

\* C18: a chain_exploration task without entities for which the extraction
\* finds nothing is skipped: the chain explorer is not called, the warning is
\* logged (in a stream: yielded), no completed or error event (chunk) of the
\* task follows, its bucket gets nothing, and the later tasks still run.
C18_ChainSkipped ==
    \A r \in Requests :
        /\ \A k \in 1..Len(outcomes[r]) :
             LET i == dispatched[r][k]
                 task == retrieval_plan[r].tasks[i]
             IN  /\ (task.type = "chain_exploration" /\ ~task.entities
                      /\ ~HasText(all_results[r])) => outcomes[r][k] = "skip"
                 /\ outcomes[r][k] = "skip" =>
                      /\ task.type = "chain_exploration" /\ ~task.entities
                      /\ \A c \in 1..Len(retriever_calls[r]) : retriever_calls[r][c] # i
                      /\ i \notin InBuckets(all_results[r])
                      /\ mode[r] = "sync" =>
                           /\ \E p \in 1..Len(execution_trace) : Untimed(execution_trace[p]) =
                                 [type |-> "chain_exploration_warning", task |-> i]
                           /\ \A p \in 1..Len(execution_trace) :
                                 execution_trace[p].task = i =>
                                   execution_trace[p].type \in
                                     {"chain_exploration", "chain_exploration_warning"}
                      /\ mode[r] = "stream" =>
                           /\ \E p \in 1..Len(chunks[r]) :
                                 chunks[r][p] = [kind |-> "chain_skip", task |-> i]
                           /\ \A p \in 1..Len(chunks[r]) :
                                 chunks[r][p].task = i =>
                                   chunks[r][p].kind \in {"task_start", "chain_start", "chain_skip"}
        /\ pc[r] \in {"done", "st_synth"} => dispatched[r] = tasks[r]

\* a process_query run skipped its chain_exploration task and ran the task
\* after it
C18_Witness ==
    \E r \in Requests :
        /\ mode[r] = "sync"
        /\ pc[r] = "done"
        /\ outcomes[r] = <<"skip", "ok">>
        /\ Len(retriever_calls[r]) = 1

\* ---------------------------------------------- claims on the thinking engine
\* C19: in every state of a thinking engine, from its construction on, the
\* reasoning tree contains the branch "main".
C19_MainExists == "main" \in DOMAIN thinking_engine.reasoning_tree

\* the last operation was a merge_branches(src, dst) that returned True
Merged == e_last.op = "merge_branches" /\ e_last.result = "ok"

\* the claim as C20 states it: a second merge_branches(B, A) leaves the steps
\* of A as the first one left them
C20_MergeIdempotent ==
    Merged =>
        MergeBranches(thinking_engine, e_last.a, e_last.b).reasoning_tree[e_last.b]
          = thinking_engine.reasoning_tree[e_last.b]

\* C20: merge_branches(B, A) appends to A the steps of B whose content A
\* lacks and then a merge record; a second merge_branches(B, A) copies no step
\* of B again and appends one more merge record.
C20_SecondMergeAddsRecord ==
    Merged =>
        LET B == e_last.a
            A == e_last.b
            was == e_before.reasoning_tree[A]
            now == thinking_engine.reasoning_tree[A]
            src == e_before.reasoning_tree[B]
            added == SubSeq(now, Len(was) + 1, Len(now) - 1)
        IN  /\ SubSeq(now, 1, Len(was)) = was
            /\ now[Len(now)] = MergeRecord(B, A)
            /\ \A k \in 1..Len(added) :
                 /\ \E j \in 1..Len(src) : src[j] = added[k]
                 /\ \A j \in 1..Len(was) : was[j] # added[k]
            /\ \A j \in 1..Len(src) :
                 \E k \in 1..(Len(now) - 1) : now[k] = src[j]
            /\ MergeBranches(thinking_engine, B, A).reasoning_tree[A]
                 = Append(now, MergeRecord(B, A))

\* a merge has copied a step of another branch into its target
C20_Witness ==
    /\ Merged
    /\ e_last.a # e_last.b
    /\ Len(thinking_engine.reasoning_tree[e_last.b])
         >= Len(e_before.reasoning_tree[e_last.b]) + 2

\* ------------------------------------------- claims on truncated reasoning
\* the last operation was prepare_truncated_reasoning on a trace of n >= 1 steps
Truncated ==
    /\ e_last.op = "prepare_truncated_reasoning"
    /\ Len(thinking_engine.all_reasoning_steps) >= 1

\* the positions of the output that hold a step, and the index of the step
\* a position holds
LinePos(out) == {k \in 1..Len(out) : out[k] # Ellipsis}

\* the steps the claim says an output of a trace of more than 5 steps keeps
ClaimKept(steps) ==
    LET n == Len(steps)
    IN  {1} \cup ((n - 3)..n) \cup {i \in 2..(n - 4) : steps[i].kind \in {"query", "result"}}

\* C21: the output of prepare_truncated_reasoning on n >= 1 steps contains
\* the first step and the last min(4, n-1) steps; for n > 5 it contains
\* exactly the first step, the last 4 steps and the middle steps with a
\* search-query or search-result marker, each once, in the original order,
\* with "..." exactly between two consecutive kept steps that are not adjacent.
C21_TruncatedAnchors ==
    Truncated =>
        LET steps == thinking_engine.all_reasoning_steps
            n == Len(steps)
            out == e_last.result
            lines == LinePos(out)
            last == IF n - 1 < 4 THEN n - 1 ELSE 4
        IN  /\ \E k \in lines : out[k] = StepLine(1, steps[1])
            /\ \A i \in (n - last + 1)..n : \E k \in lines : out[k] = StepLine(i, steps[i])
            /\ n > 5 =>
                 /\ {out[k].idx : k \in lines} = ClaimKept(steps)
                 /\ \A k \in lines : out[k] = StepLine(out[k].idx, steps[out[k].idx])
                 /\ \A k, j \in lines : k < j => out[k].idx < out[j].idx
                 /\ out[1] # Ellipsis /\ out[Len(out)] # Ellipsis
                 /\ \A k \in 1..(Len(out) - 1) :
                      IF out[k + 1] = Ellipsis
                      THEN /\ out[k] # Ellipsis
                           /\ out[k + 2] # Ellipsis
                           /\ out[k + 2].idx > out[k].idx + 1
                      ELSE out[k] # Ellipsis => out[k + 1].idx = out[k].idx + 1

\* a trace of more than 5 steps whose output keeps a middle step between two
\* separators and drops others
C21_Witness ==
    /\ Truncated
    /\ Len(thinking_engine.all_reasoning_steps) > 7
    /\ \E k \in 2..(Len(e_last.result) - 1) :
         /\ e_last.result[k - 1] = Ellipsis
         /\ e_last.result[k] # Ellipsis
         /\ e_last.result[k + 1] = Ellipsis

\* ----------------------------------------------- claims on iterative search
\* C22: the number of search queries an iterative search sends out never
\* exceeds MAX_SEARCH_LIMIT, and once that many have been sent
\* generate_next_query does not return has_query.
C22_SearchBound ==
    /\ Len(thinking_engine.executed_search_queries) <= MAX_SEARCH_LIMIT
    /\ (/\ e_last.op = "generate_next_query"
        /\ Len(e_before.executed_search_queries) >= MAX_SEARCH_LIMIT)
         => e_last.result.status # "has_query"

\* --------------------------------------------------- claims on hypotheses
\* C23: generate_hypotheses returns, and stores in the engine, at least one
\* hypothesis whatever the LLM answered.
C23_AtLeastOneHypothesis ==
    e_last.op = "generate_hypotheses" =>
        /\ Len(e_last.result) >= 1
        /\ Len(thinking_engine.hypotheses) >= 1

\* ------------------------------------------- claims on the global search tool
\* C24: two successive search calls with the same input on an unchanged graph
\* store return the same list of partial summaries, and neither raises.
C24_SearchIdempotent ==
    (s_prev # NoCall /\ s_prev.input = s_last.input) =>
        /\ s_last.result = s_prev.result
        /\ s_last.result.shape = "list"

\* ------------------------------------------------------ claims on the planner
\* C25: when the planner's LLM call raises, or its answer holds no JSON
\* object, or the JSON found does not parse, plan does not raise and returns
\* the default plan: complexity 0.5 and the one task local_search on the
\* question with priority 3.
C25_DefaultPlan ==
    p_last.resp.kind \in {"raise", "no_json", "bad_json"} =>
        /\ ~p_last.raised
        /\ p_last.plan.complexity = 5
        /\ p_last.plan.tasks = <<[type |-> "local_search", priority |-> 3, entities |-> FALSE]>>

\* the planner has been given a text whose braces hold no JSON
C25_Witness ==
    /\ p_last.resp.kind = "bad_json"
    /\ p_last.plan.complexity = 5

\* C26: the complexity of every plan process_query acts on lies in [0,1].
C26_ComplexityInRange ==
    \A r \in Requests :
        mode[r] = "sync" => retrieval_plan[r].complexity \in 0..10

\* -------------------------------------------------------- claims on the trace
\* the number of events a process_query run that returns has logged: five
\* of its own, four more when it thinks, two for each task
EventsOf(plan) == 5 + (IF plan.complexity > ComplexityThreshold THEN 4 ELSE 0) + 2 * Len(plan.tasks)

\* C27: when a process_query run returns, the timestamps of the execution
\* trace are non-decreasing in trace order, and the trace holds the events
\* the run appended and no other.
C27_TraceMonotone ==
    [][\A r \in Requests :
         (pc[r] = "sync_loop" /\ pc'[r] = "done") =>
             /\ \A i \in 1..(Len(execution_trace') - 1) :
                  execution_trace'[i].timestamp <= execution_trace'[i + 1].timestamp
             /\ Len(execution_trace') = EventsOf(retrieval_plan[r])
             /\ execution_trace'[1].type = "generating_plan"
             /\ \A i \in 2..Len(execution_trace') :
                  execution_trace'[i].type # "generating_plan"]_vars

\* a second run has returned a trace whose timestamps grow, after a first
\* run that logged earlier events
C27_Witness ==
    /\ pc[1] = "done"
    /\ pc[2] = "done"
    /\ execution_trace[1].timestamp > 0
    /\ execution_trace[Len(execution_trace)].timestamp > execution_trace[1].timestamp
    /\ Len(execution_trace) > 5

\* ------------------------------------- more claims on the thinking engine
\* the engine had been initialized with a query when the last operation began
Initialized == e_last.op # "none" /\ e_before.msg_history # <<>>

\* the steps of a branch as get_full_thinking would show them
Shown(steps) == [k \in 1..Len(steps) |-> RemoveTags(steps[k])]

\* C28: after branch_reasoning, merge_branches or counter_factual_analysis,
\* get_full_thinking returns the steps of the current branch and no other,
\* in order, with the query and result markers stripped.
C28_FullThinkingOfBranch ==
    (/\ Initialized
     /\ e_last.op \in {"branch_reasoning", "merge_branches", "counter_factual_analysis"}
     /\ e_last.result = "ok") =>
        GetFullThinking(thinking_engine)
          = Shown(thinking_engine.reasoning_tree[thinking_engine.current_branch])

\* s is a prefix of t
IsPrefix(s, t) == Len(s) <= Len(t) /\ SubSeq(t, 1, Len(s)) = s

\* C29: after initialize_with_query, every operation other than it leaves
\* each branch with the steps it had as a prefix of the steps it has.
C29_AppendOnly ==
    (Initialized /\ e_last.op # "initialize_with_query") =>
        \A b \in DOMAIN e_before.reasoning_tree :
            /\ b \in DOMAIN thinking_engine.reasoning_tree
            /\ IsPrefix(e_before.reasoning_tree[b], thinking_engine.reasoning_tree[b])

\* C30: a counter_factual_analysis call that returns has created a branch
\* whose name was not in the tree, has left current_branch at "main", has
\* appended its conclusion as the last step of main and has left the earlier
\* steps of main as they were.
C30_FreshBranch ==
    (/\ Initialized
     /\ e_last.op = "counter_factual_analysis"
     /\ e_last.result = "ok") =>
        LET was == e_before.reasoning_tree["main"]
            now == thinking_engine.reasoning_tree["main"]
        IN  /\ e_last.a \notin DOMAIN e_before.reasoning_tree
            /\ thinking_engine.current_branch = "main"
            /\ now = Append(was, [by |-> 0, kind |-> "cf_summary", task |-> 0])

\* ------------------------------------ switching, merging and initializing
\* C31: switch_branch(name) with a name the tree lacks and merge_branches(src,
\* dst) with src or dst the tree lacks return False and leave the tree,
\* current_branch and the flat step list as they were; with existing names
\* they return True and leave current_branch on the named (target) branch.
C31_MissingBranchNoEffect ==
    /\ e_last.op = "switch_branch" =>
          IF e_last.a \in DOMAIN e_before.reasoning_tree
          THEN e_last.result = "ok" /\ thinking_engine.current_branch = e_last.a
          ELSE e_last.result = "false" /\ thinking_engine = e_before
    /\ e_last.op = "merge_branches" =>
          IF {e_last.a, e_last.b} \subseteq DOMAIN e_before.reasoning_tree
          THEN e_last.result = "ok" /\ thinking_engine.current_branch = e_last.b
          ELSE e_last.result = "false" /\ thinking_engine = e_before

\* a switch to a missing branch was refused on an engine that has steps and
\* stands on a branch other than main
C31_Witness ==
    /\ e_last.op = "switch_branch"
    /\ e_last.a \notin DOMAIN e_before.reasoning_tree
    /\ e_before.all_reasoning_steps # <<>>
    /\ e_before.current_branch # "main"
    /\ e_before.current_branch \in DOMAIN e_before.reasoning_tree

\* C32: initialize_with_query(q), called in any state, leaves the engine with
\* no step, no executed query, no hypothesis, no verification, a tree that
\* holds an empty main alone, current_branch main and a message history of
\* the one user message that carries q.
C32_InitializeResets ==
    e_last.op = "initialize_with_query" =>
        /\ thinking_engine.all_reasoning_steps = <<>>
        /\ thinking_engine.executed_search_queries = <<>>
        /\ thinking_engine.hypotheses = <<>>
        /\ thinking_engine.verification_chain = <<>>
        /\ DOMAIN thinking_engine.reasoning_tree = {"main"}
        /\ thinking_engine.reasoning_tree["main"] = <<>>
        /\ thinking_engine.current_branch = "main"
        /\ thinking_engine.msg_history = <<[role |-> "user", query |-> e_last.a]>>

\* initialize_with_query found an engine with a second branch, an executed
\* query and a verification
C32_Witness ==
    /\ e_last.op = "initialize_with_query"
    /\ "a" \in DOMAIN e_before.reasoning_tree
    /\ e_before.executed_search_queries # <<>>
    /\ e_before.verification_chain # <<>>
    /\ e_before.all_reasoning_steps # <<>>

\* C38: once initialize_with_query has been called, current_branch names a
\* branch of the tree in every state, and each add_reasoning_step appends
\* one step, the same one, to the current branch and to the flat list and
\* leaves every other branch and current_branch as they were.
C38_CurrentBranchExists ==
    /\ thinking_engine.msg_history # <<>> =>
          thinking_engine.current_branch \in DOMAIN thinking_engine.reasoning_tree
    /\ (Initialized /\ e_last.op = "add_reasoning_step") =>
          LET cur == e_before.current_branch
              flat == thinking_engine.all_reasoning_steps
          IN  /\ thinking_engine.current_branch = cur
              /\ DOMAIN thinking_engine.reasoning_tree = DOMAIN e_before.reasoning_tree
              /\ Len(flat) = Len(e_before.all_reasoning_steps) + 1
              /\ flat = Append(e_before.all_reasoning_steps, flat[Len(flat)])
              /\ thinking_engine.reasoning_tree[cur]
                   = Append(e_before.reasoning_tree[cur], flat[Len(flat)])
              /\ \A b \in DOMAIN e_before.reasoning_tree \ {cur} :
                   thinking_engine.reasoning_tree[b] = e_before.reasoning_tree[b]

\* a step was added on a branch other than main while main had steps
C38_Witness ==
    /\ Initialized
    /\ e_last.op = "add_reasoning_step"
    /\ e_before.current_branch # "main"
    /\ e_before.reasoning_tree["main"] # <<>>

\* ------------------------------------------------ claims on the next query
\* the statuses generate_next_query documents
QueryStatuses == {"has_query", "no_query", "answer_ready", "empty", "error"}

\* the claim as C33 states it: a response with a final-answer marker gives
\* answer_ready
C33_AnswerReadyOnMarker ==
    e_last.op = "generate_next_query" =>
        /\ HasAnswerMarker(e_last.a) => e_last.result.status = "answer_ready"
        /\ e_last.result.status \in QueryStatuses
        /\ e_last.result.queries # <<>> <=> e_last.result.status = "has_query"

\* C33: generate_next_query returns answer_ready exactly when the response
\* holds no search query and holds a final-answer marker; its status is one
\* of has_query, no_query, answer_ready, empty, error, and the queries it
\* returns are non-empty exactly when the status is has_query.
C33_AnswerReadyWithoutQuery ==
    e_last.op = "generate_next_query" =>
        /\ e_last.result.status = "answer_ready" <=>
              (HasAnswerMarker(e_last.a) /\ ExtractQueries(e_before, e_last.a) = <<>>)
        /\ e_last.result.status \in QueryStatuses
        /\ e_last.result.queries # <<>> <=> e_last.result.status = "has_query"
        /\ e_last.result.status = "has_query" =>
              e_last.result.queries = ExtractQueries(e_before, e_last.a)

\* the LLM wrote a final-answer marker and a search query in one response
C33_Witness ==
    /\ e_last.op = "generate_next_query"
    /\ e_last.a = "query_answer"
    /\ e_last.result.status = "has_query"
    /\ e_before.executed_search_queries # <<>>

\* ------------------------------------------------- claims on the two modes
\* the chunks of request r begin with the planning marker, and each
\* completion or failure marker of a task follows the start marker of that
\* task with no other task's start marker between them
StreamOrdered(r) ==
    LET c == chunks[r]
        starts == {p \in 1..Len(c) : c[p].kind = "task_start"}
        ends == {p \in 1..Len(c) : c[p].kind \in {"task_done", "task_failed"}}
    IN  /\ c # <<>> => c[1].kind = "planning"
        /\ \A q \in ends :
             \E p \in starts :
                 /\ p < q
                 /\ c[p].task = c[q].task
                 /\ \A p2 \in starts : ~(p < p2 /\ p2 < q)
        /\ \A q1, q2 \in ends : c[q1].task = c[q2].task => q1 = q2

\* C34: process_query_stream emits the planning marker first, each task's
\* start marker before that task's completion or failure marker and that one
\* before the next task's start marker, and the last chunk of a stream that
\* has ended is the final answer.
C34_StreamOrder ==
    \A r \in Requests :
        mode[r] = "stream" =>
            /\ StreamOrdered(r)
            /\ pc[r] \in {"done", "raised"} =>
                 chunks[r][Len(chunks[r])].kind = "answer"

\* the steps without the request that added them
Anon(steps) == [k \in 1..Len(steps) |-> [steps[k] EXCEPT !.by = 0]]

\* the arguments of the synthesizer calls without the request
AnonCalls(calls) ==
    [k \in 1..Len(calls) |-> [calls[k] EXCEPT !.thinking = Anon(@)]]

\* the stream of request r ended in a failed LLM call of a thinking step
ThinkingRaised(r) ==
    /\ pc[r] = "raised"
    /\ chunks[r][Len(chunks[r])].kind \in {"initial_thinking", "final_thinking"}

\* C37: a process_query run and a process_query_stream run of the same plan
\* that received the same retriever and LLM responses have invoked the same
\* retrievers in the same order, appended the same reasoning steps, filled
\* the four buckets alike and called the synthesizer with the same results
\* and thinking text.
C37_SameRun ==
    (/\ mode[1] = "sync" /\ pc[1] = "done"
     /\ mode[2] = "stream" /\ pc[2] \in {"done", "raised"}
     /\ retrieval_plan[2] = retrieval_plan[1]
     /\ IsPrefix(outcomes[2], outcomes[1])
     /\ ~ThinkingRaised(2)) =>
        /\ dispatched[2] = dispatched[1]
        /\ retriever_calls[2] = retriever_calls[1]
        /\ Anon(own_steps[2]) = Anon(own_steps[1])
        /\ all_results[2] = all_results[1]
        /\ AnonCalls(synth_calls[2]) = AnonCalls(synth_calls[1])

\* ------------------------------------------------------------ session pool
\* self.max_pool_size = 10
max_pool_size == 10

\* a session of the driver; sessions are not told apart
Session == "session"

\* get_session up to its test: `if self.session_pool:`; on an empty pool the
\* driver creates a session and the call returns it
DB_GetSession(c) ==
    /\ db_pc[c] = "idle"
    /\ IF session_pool # <<>>
       THEN /\ db_pc' = [db_pc EXCEPT ![c] = "pop"]
            /\ UNCHANGED <<db_held, db_created>>
       ELSE /\ db_created < MaxSessions
            /\ db_created' = db_created + 1
            /\ db_held' = [db_held EXCEPT ![c] = @ + 1]
            /\ UNCHANGED db_pc
    /\ UNCHANGED <<session_pool, db_closed>>
    /\ UNCHANGED <<coordVars, agentVars, engineVars, toolVars, p_last, clock, a_chunks,
                   chunkerVars>>

\* get_session after its test: return self.session_pool.pop(), which raises
\* IndexError on an empty list
DB_Pop(c) ==
    /\ db_pc[c] = "pop"
    /\ IF session_pool # <<>>
       THEN /\ session_pool' = SubSeq(session_pool, 1, Len(session_pool) - 1)
            /\ db_held' = [db_held EXCEPT ![c] = @ + 1]
            /\ db_pc' = [db_pc EXCEPT ![c] = "idle"]
       ELSE /\ db_pc' = [db_pc EXCEPT ![c] = "raised"]
            /\ UNCHANGED <<session_pool, db_held>>
    /\ UNCHANGED <<db_closed, db_created>>
    /\ UNCHANGED <<coordVars, agentVars, engineVars, toolVars, p_last, clock, a_chunks,
                   chunkerVars>>

\* release_session up to its test: `if len(self.session_pool) <
\* self.max_pool_size:`; on a full pool the session is closed
DB_ReleaseSession(c) ==
    /\ db_pc[c] = "idle"
    /\ db_held[c] > 0
    /\ IF Len(session_pool) < max_pool_size
       THEN /\ db_pc' = [db_pc EXCEPT ![c] = "append"]
            /\ UNCHANGED <<db_held, db_closed>>
       ELSE /\ db_held' = [db_held EXCEPT ![c] = @ - 1]
            /\ db_closed' = db_closed + 1
            /\ UNCHANGED db_pc
    /\ UNCHANGED <<session_pool, db_created>>
    /\ UNCHANGED <<coordVars, agentVars, engineVars, toolVars, p_last, clock, a_chunks,
                   chunkerVars>>

\* release_session after its test: self.session_pool.append(session)
DB_Append(c) ==
    /\ db_pc[c] = "append"
    /\ session_pool' = Append(session_pool, Session)
    /\ db_held' = [db_held EXCEPT ![c] = @ - 1]
    /\ db_pc' = [db_pc EXCEPT ![c] = "idle"]
    /\ UNCHANGED <<db_closed, db_created>>
    /\ UNCHANGED <<coordVars, agentVars, engineVars, toolVars, p_last, clock, a_chunks,
                   chunkerVars>>

\* callers of the one DBConnectionManager, each in a thread of its own
NextPool ==
    \E c \in Requests :
        \/ DB_GetSession(c)
        \/ DB_Pop(c)
        \/ DB_ReleaseSession(c)
        \/ DB_Append(c)

SpecPool == Init /\ [][NextPool]_vars

\* ------------------------------------------------------------ text chunker
\* if sentence_end <= start_pos + self.chunk_size + 100
SentenceSlack == 100

\* the lengths of the segments: short ones, and one longer than the slack
TokenLens == (0 .. MaxTokens) \cup {SentenceSlack + 1}

\* the token lists: a length and the indices (from 0) of the tokens that end
\* a sentence
TokenLists ==
    {[len |-> n, ends |-> e] :
        n \in TokenLens,
        e \in SUBSET ((0 .. MaxTokens - 1) \cup {SentenceSlack})}

\* _find_next_sentence_end
FindNextSentenceEnd(tokens, pos) ==
    LET found == {i \in pos .. tokens.len - 1 : i \in tokens.ends}
    IN  IF found # {}
        THEN (CHOOSE i \in found : \A j \in found : i <= j) + 1
        ELSE tokens.len

\* _find_previous_sentence_end
FindPreviousSentenceEnd(tokens, pos) ==
    LET found == {i \in 0 .. pos - 1 : i \in tokens.ends}
    IN  IF found # {}
        THEN (CHOOSE i \in found : \A j \in found : i >= j) + 1
        ELSE 0

\* ChineseTextChunker(chunk_size, overlap), which refuses chunk_size <=
\* overlap only, and _chunk_single_segment up to its loop; a chunk is kept as
\* the slice [from, to) of the tokens
K_Start(tokens, cs, ov) ==
    /\ k_pc = "idle"
    /\ cs > ov
    /\ \A i \in tokens.ends : i < tokens.len
    /\ all_tokens' = tokens
    /\ chunk_size' = cs
    /\ overlap' = ov
    /\ start_pos' = 0
    /\ text_chunks' = <<>>
    /\ prev_start' = 0 - 1
    /\ k_pc' = IF tokens.len = 0 THEN "returned" ELSE "loop"
    /\ UNCHANGED <<coordVars, agentVars, engineVars, toolVars, p_last, clock, a_chunks,
                   poolVars>>

\* one pass of `while start_pos < len(all_tokens)`
K_Iterate ==
    /\ k_pc = "loop"
    /\ prev_start' = start_pos
    /\ IF start_pos >= all_tokens.len
       THEN /\ k_pc' = "returned"
            /\ UNCHANGED <<start_pos, text_chunks>>
       ELSE LET first_end == IF start_pos + chunk_size < all_tokens.len
                             THEN start_pos + chunk_size
                             ELSE all_tokens.len
                sentence_end == FindNextSentenceEnd(all_tokens, first_end)
                end_pos == IF /\ first_end < all_tokens.len
                              /\ sentence_end <= start_pos + chunk_size + SentenceSlack
                           THEN sentence_end
                           ELSE first_end
                overlap_start == IF start_pos >= end_pos - overlap
                                 THEN start_pos
                                 ELSE end_pos - overlap
                next_sentence_start == FindPreviousSentenceEnd(all_tokens, overlap_start)
                moved == IF /\ next_sentence_start > start_pos
                            /\ next_sentence_start < end_pos
                         THEN next_sentence_start
                         ELSE overlap_start
            IN  /\ text_chunks' = IF end_pos > start_pos
                                  THEN Append(text_chunks, [from |-> start_pos, to |-> end_pos])
                                  ELSE text_chunks
                /\ IF end_pos >= all_tokens.len
                   THEN /\ k_pc' = "returned"
                        /\ UNCHANGED start_pos
                   ELSE /\ start_pos' = IF moved >= end_pos THEN end_pos ELSE moved
                        /\ UNCHANGED k_pc
    /\ UNCHANGED <<all_tokens, chunk_size, overlap>>
    /\ UNCHANGED <<coordVars, agentVars, engineVars, toolVars, p_last, clock, a_chunks,
                   poolVars>>

\* one segment chunked by one chunker
NextChunker ==
    \/ \E tokens \in TokenLists, cs \in 0 .. MaxChunk, ov \in (0 - 1) .. (MaxChunk - 1) :
           K_Start(tokens, cs, ov)
    \/ K_Iterate

SpecChunker == Init /\ [][NextChunker]_vars

\* --------------------------------------------- claims on the streamed hits
\* the value the session cache returned to request r
CachedResult(r) == a_log[r][1].value

\* C39: on a cache hit in _stream_process the chunks, put together in the
\* order they were yielded, are the cached answer character by character,
\* and the request runs no retrieval and no synthesis.
C39_HitChunksJoin ==
    \A r \in Requests :
        (a_handler[r] = "stream" /\ a_hit[r] = "session") =>
            /\ Join(a_chunks[r]) = CachedResult(r)
            /\ \A k \in 1..Len(a_chunks[r]) : a_chunks[r][k] # <<>>
            /\ a_computes[r] = 0
            /\ a_pc[r] = "done"

\* a cached answer with a run of letters as long as the buffer limit and a
\* sentence mark followed by whitespace was streamed in two chunks or more
C39_Witness ==
    \E r \in Requests :
        /\ a_handler[r] = "stream"
        /\ a_hit[r] = "session"
        /\ Len(a_chunks[r]) >= 2
        /\ \E k \in 1..Len(a_chunks[r]) : Len(a_chunks[r][k]) >= BufferLimit
        /\ \E k \in 1..Len(CachedResult(r)) : CachedResult(r)[k] \in Whitespace

\* C35: once _stream_process has served a question through the coordinator's
\* stream (complexity not above the threshold, or no deeper tool) the session
\* cache holds an answer for the question and the thread, so a repeat of
\* the question in the thread is a cache hit.
C35_StreamAnswerCached ==
    \A r \in Requests :
        (/\ a_handler[r] = "stream"
         /\ a_pc[r] = "done"
         /\ a_hit[r] = "none"
         /\ ~UsesDeepTool(a_question[r])
         /\ a_returned[r] # StreamError) =>
            Truthy(CacheGet(session_cache, <<a_thread[r], Strip(a_question[r])>>))

\* ---------------------------------------------- claims on the session pool
\* C36: whatever the callers do, and however their calls interleave, the
\* pool never holds more than max_pool_size sessions and no get_session
\* fails.
C36_PoolBounded ==
    /\ Len(session_pool) <= max_pool_size
    /\ \A c \in Requests : db_pc[c] # "raised"

\* --------------------------------------------------- claims on the chunker

\* C40: for every token list and every chunk_size > overlap the loop of
\* _chunk_single_segment moves on: after each pass that stays in the loop
\* start_pos is larger than before the pass, a chunk never starts after the
\* end of the chunk before it, the next start is never past the end of the
\* last chunk, and on return the last chunk ends at the last token.
C40_ChunkerProgress ==
    /\ (k_pc = "loop" /\ prev_start >= 0) => start_pos > prev_start
    /\ \A i \in 2 .. Len(text_chunks) : text_chunks[i].from <= text_chunks[i - 1].to
    /\ (k_pc = "loop" /\ text_chunks # <<>>) => start_pos <= text_chunks[Len(text_chunks)].to
    /\ (k_pc = "loop" /\ text_chunks = <<>>) => start_pos = 0
    /\ (k_pc = "returned" /\ all_tokens.len > 0) =>
           /\ text_chunks # <<>>
           /\ text_chunks[Len(text_chunks)].to = all_tokens.len

====
